---- MODULE Spec2Model ----
(***************************************************************************)
(* Push pipeline of nonebot-plugin-anipusher: the orchestrator             *)
(* (PushManager.execute), the normalizer fields the orchestrator and the   *)
(* buffer consume (DataPicker), and the debounced merge buffer             *)
(* (PushBuffer).  Strings that the code parses (episode label, season) are *)
(* sequences of one-character strings; strings it only compares are TLA+   *)
(* strings.  Python None is NULL for plain strings, NONE for integers and  *)
(* the empty sequence for parsed strings (the code never produces an empty *)
(* label or season, and tests both only for truthiness).                   *)
(***************************************************************************)
EXTENDS Integers, Sequences, FiniteSets, TLC

VARIABLES sent, pc, src, rec, ev, buffer, locks, waiters, tasks, tstate,
          tkey, flushed, elapsed, since, log,
          \* ImageSelector: the cache directory and the select() calls
          env, cache, tmp, ipc, output_img, is_image_expired, fetch, winner,
          result,
          \* one call of a function of the pipeline: its input and its output
          arg, out

\* PushManager and PushBuffer
pushvars == <<sent, pc, src, rec, ev, buffer, locks, waiters, tasks, tstate,
              tkey, flushed, elapsed, since, log>>

\* ImageSelector
imgvars == <<env, cache, tmp, ipc, output_img, is_image_expired, fetch,
             winner, result>>

\* a single function call
callvars == <<arg, out>>

vars == <<pushvars, imgvars, callvars>>

(* ------------------------------ bounds --------------------------------- *)
\* number of pipeline runs (PushManager instances) that are ever started
MaxRuns == 2
\* rows per source table
MaxId == 2
MaxUrls == 2
MaxEp == 10

(* ------------------------- program constants --------------------------- *)
\* asyncio.sleep(60) in _delayed_push
Delay == 60

NULL == "<None>"
NONE == -1
NoStr == <<>>
NoRun == 0

Runs == 1 .. MaxRuns
Sources == {"ANIRSS", "EMBY"}
RecKeys == Sources \X (1 .. MaxId)

(* ------------------------------ strings -------------------------------- *)
DigitChars == <<"0", "1", "2", "3", "4", "5", "6", "7", "8", "9">>

IsDigit(c) == \E i \in 1 .. 10 : DigitChars[i] = c

DigitVal(c) == (CHOOSE i \in 1 .. 10 : DigitChars[i] = c) - 1

\* str(int(n)) for 0 <= n < 100
Str(n) ==
    IF n < 10 THEN <<DigitChars[n + 1]>>
    ELSE <<DigitChars[(n \div 10) + 1], DigitChars[(n % 10) + 1]>>

RECURSIVE ToInt(_)
\* int(s) for a sequence of digit characters
ToInt(s) ==
    IF s = <<>> THEN 0
    ELSE 10 * ToInt(SubSeq(s, 1, Len(s) - 1)) + DigitVal(s[Len(s)])

\* re.search(r'\d+', s).group(), <<>> when there is no match
FirstDigitRun(s) ==
    IF \A i \in 1 .. Len(s) : ~IsDigit(s[i]) THEN <<>>
    ELSE LET a == CHOOSE i \in 1 .. Len(s) :
                      IsDigit(s[i]) /\ \A j \in 1 .. i - 1 : ~IsDigit(s[j])
             b == CHOOSE i \in a .. Len(s) :
                      /\ \A j \in a .. i : IsDigit(s[j])
                      /\ (i = Len(s) \/ ~IsDigit(s[i + 1]))
         IN  SubSeq(s, a, b)

\* str.lower() on the classifications the model uses
Lower(s) ==
    CASE s = "Movie" -> "movie"
      [] s = "MOVIE" -> "movie"
      [] s = "Episode" -> "episode"
      [] s = "Series" -> "series"
      [] s = "EPISODE" -> "episode"
      [] s = "TheMovieDb" -> "themoviedb"
      [] s = "Bangumi" -> "bangumi"
      [] OTHER -> s

(* --------------------------- the source tables ------------------------- *)
\* f"第 {int(season)} 季 | 第 {int(episode)} 集"
EpisodeLabel(season, episode) ==
    <<"di", " ">> \o Str(season) \o <<" ", "ji", " ", "|", " ", "di", " ">>
        \o Str(episode) \o <<" ", "ji">>

\* f"合计 {merged_episode} 集更新"
SeriesLabel(n) == <<"heji", " ">> \o Str(n) \o <<" ", "ji", "gengxin">>

\* the timestamp column of a row: a day of May 2024, by source and id
RowTime(k) ==
    <<"2", "0", "2", "4", "-", "0", "5", "-", "0">>
        \o Str(IF k[1] = "EMBY" THEN k[2] + 4 ELSE k[2])
        \o <<"T", "1", "0", ":", "2", "0", ":", "3", "0">>

\* the rows of the two source tables (raw records), by id
Row(k) ==
    CASE k = <<"ANIRSS", 1>> ->
           [title |-> "A", season |-> 2, episode |-> 12, type |-> NULL,
            merged_episode |-> NONE, action |-> NULL,
            timestamp |-> RowTime(k)]
      [] k = <<"ANIRSS", 2>> ->
           [title |-> "A", season |-> 1, episode |-> 2, type |-> NULL,
            merged_episode |-> NONE, action |-> "download",
            timestamp |-> RowTime(k)]
      [] k = <<"ANIRSS", 3>> ->
           [title |-> "C", season |-> NONE, episode |-> NONE, type |-> NULL,
            merged_episode |-> NONE, action |-> "download",
            timestamp |-> RowTime(k)]
      [] k = <<"EMBY", 1>> ->
           [title |-> NULL, season |-> 1, episode |-> 1, type |-> "Movie",
            merged_episode |-> NONE, action |-> NULL,
            timestamp |-> RowTime(k)]
      [] k = <<"EMBY", 2>> ->
           [title |-> "A", season |-> 1, episode |-> 3, type |-> "Episode",
            merged_episode |-> NONE, action |-> NULL,
            timestamp |-> RowTime(k)]
      [] OTHER ->
           [title |-> "A", season |-> 1, episode |-> NONE, type |-> "Series",
            merged_episode |-> 3, action |-> NULL,
            timestamp |-> RowTime(k)]

\* the enrichment record found for a row, and the default empty one
AnimeHit == [emby_title |-> NULL, tmdb_title |-> "M"]
AnimeDefault == [emby_title |-> NULL, tmdb_title |-> NULL]

Truthy(s) == s # NULL /\ s # ""

(* ------------------------------ DataPicker ----------------------------- *)
PickTitle(s, row, anime) ==
    IF Truthy(row.title) THEN row.title
    ELSE IF Truthy(anime.emby_title) THEN anime.emby_title
    ELSE anime.tmdb_title

PickEpisode(s, row) ==
    IF s = "ANIRSS" THEN
        IF row.season # NONE /\ row.episode # NONE
        THEN EpisodeLabel(row.season, row.episode) ELSE NoStr
    ELSE IF ~Truthy(row.type) THEN NoStr
    ELSE IF row.type = "Movie" THEN NoStr
    ELSE IF row.type = "Series" THEN
        IF row.merged_episode # NONE /\ row.merged_episode # 0
        THEN SeriesLabel(row.merged_episode) ELSE NoStr
    ELSE IF row.type = "Episode" THEN
        IF row.season # NONE /\ row.episode # NONE
        THEN EpisodeLabel(row.season, row.episode) ELSE NoStr
    ELSE NoStr

PickMediaType(s, row) ==
    IF s = "EMBY" THEN row.type
    ELSE IF row.season # NONE /\ row.season # 0
            /\ row.episode # NONE /\ row.episode # 0 THEN "Episode"
    ELSE IF row.season # NONE /\ row.season # 0 THEN "Series"
    ELSE NULL

\* the season is returned for a Movie too
PickSeasonAnyType(s, row) == IF row.season # NONE THEN Str(row.season) ELSE NoStr

PickSeason(s, row) ==
    IF s = "EMBY" /\ row.type = "Movie" THEN NoStr
    ELSE IF row.season # NONE THEN Str(row.season)
    ELSE NoStr

PickAction(s, row) == IF s = "ANIRSS" THEN row.action ELSE "media_updated"

(* ------------------- DataPicker.pick as a function --------------------- *)
\* a raw value that is None, an int or a str, its text in v
Val(t, v) == [t |-> t, v |-> v]

\* the values of the id column that pick may be given
IdValues ==
    {Val("none", <<>>), Val("int", <<"7">>), Val("int", <<"0">>),
     Val("str", <<"7">>), Val("str", <<"x", "7">>), Val("str", <<>>)}

\* the timestamps pick may be given: None, '', two ISO texts, a month 13
\* and a word
Timestamps ==
    {NoStr,
     <<"2", "0", "2", "4", "-", "0", "5", "-", "0", "1", "T",
       "1", "0", ":", "2", "0", ":", "3", "0">>,
     <<"2", "0", "2", "4", "-", "0", "5", "-", "0", "1">>,
     <<"2", "0", "2", "4", "-", "1", "3", "-", "0", "1", "T",
       "1", "0", ":", "2", "0", ":", "3", "0">>,
     <<"s", "o", "o", "n">>}

AllDigits(s) == \A i \in 1 .. Len(s) : IsDigit(s[i])

\* the truth value of a raw value
ValTruthy(x) ==
    \/ x.t = "int" /\ ToInt(x.v) # 0
    \/ x.t = "str" /\ x.v # <<>>

\* int(x) raises ValueError
IntRaises(x) == x.t = "str" /\ (x.v = <<>> \/ ~AllDigits(x.v))

\* the days of a month
DaysInMonth(y, m) ==
    IF m \in {4, 6, 9, 11} THEN 30
    ELSE IF m # 2 THEN 31
    ELSE IF y % 4 = 0 /\ (y % 100 # 0 \/ y % 400 = 0) THEN 29 ELSE 28

\* the two-digit number at positions a, a + 1, or -1
TwoDigits(s, a) ==
    IF IsDigit(s[a]) /\ IsDigit(s[a + 1]) THEN ToInt(SubSeq(s, a, a + 1))
    ELSE -1

\* datetime.fromisoformat accepts YYYY-MM-DD and YYYY-MM-DD?HH:MM:SS
FromIsoFormatOk(s) ==
    /\ Len(s) \in {10, 19}
    /\ AllDigits(SubSeq(s, 1, 4)) /\ s[5] = "-" /\ s[8] = "-"
    /\ TwoDigits(s, 6) \in 1 .. 12
    /\ TwoDigits(s, 9) >= 1
    /\ TwoDigits(s, 9) <= DaysInMonth(ToInt(SubSeq(s, 1, 4)), TwoDigits(s, 6))
    /\ Len(s) = 19 =>
          /\ TwoDigits(s, 12) \in 0 .. 23 /\ s[14] = ":"
          /\ TwoDigits(s, 15) \in 0 .. 59 /\ s[17] = ":"
          /\ TwoDigits(s, 18) \in 0 .. 59

\* strftime('%m-%d %H:%M:%S') of a parsed ISO text
StrfTime(s) ==
    SubSeq(s, 6, 10) \o <<" ">>
        \o (IF Len(s) = 19 THEN SubSeq(s, 12, 19)
            ELSE <<"0", "0", ":", "0", "0", ":", "0", "0">>)

\* _pick_id: int(id) of a truthy id, ValueError included
PickIdRaises(s, row) == ValTruthy(row.id) /\ IntRaises(row.id)

PickId(s, row) ==
    IF ValTruthy(row.id) /\ ~IntRaises(row.id) THEN ToInt(row.id.v) ELSE NONE

\* _pick_timestamp: fromisoformat of a truthy timestamp, ValueError included
PickTimestampRaises(s, row) ==
    row.timestamp # NoStr /\ ~FromIsoFormatOk(row.timestamp)

PickTimestamp(s, row) ==
    IF row.timestamp # NoStr /\ FromIsoFormatOk(row.timestamp)
    THEN StrfTime(row.timestamp) ELSE NoStr

\* an exception leaves pick
PickRaises(s, row, anime) ==
    PickIdRaises(s, row) \/ PickTimestampRaises(s, row)

\* the dict pick returns
PickEvent(s, row, anime) ==
    [id |-> PickId(s, row),
     title |-> PickTitle(s, row, anime),
     episode |-> PickEpisode(s, row),
     timestamp |-> PickTimestamp(s, row),
     source |-> s,
     action |-> PickAction(s, row),
     media_type |-> PickMediaType(s, row),
     season |-> PickSeason(s, row)]

\* DataPicker.pick, the fields the orchestrator and the buffer read; run is
\* the identity of the dict object (one message_params per run)
PickRow(r, k, row, anime) ==
    LET s == k[1]
    IN  [run |-> r,
         id |-> k,
         title |-> PickTitle(s, row, anime),
         episode |-> PickEpisode(s, row),
         source |-> s,
         action |-> PickAction(s, row),
         media_type |-> PickMediaType(s, row),
         season |-> PickSeason(s, row),
         timestamp |-> PickTimestamp(s, row),
         image |-> NULL]

\* pick on the row of the table that has the key k
Pick(r, k, anime) == PickRow(r, k, Row(k), anime)

(* json.loads, on a text given as its sequence of characters *)
Quote == "\""

RECURSIVE SkipWs(_)
SkipWs(ts) == IF ts # <<>> /\ ts[1] = " " THEN SkipWs(Tail(ts)) ELSE ts

\* the result of a failed parse
ParseFail == [ok |-> FALSE, val |-> Val("none", <<>>), rest |-> <<>>]

ParseOk(val, rest) == [ok |-> TRUE, val |-> val, rest |-> rest]

\* a string literal: from the opening quote to the next quote
ParseString(ts) ==
    LET closing == {j \in 2 .. Len(ts) : ts[j] = Quote}
    IN  IF closing = {} THEN ParseFail
        ELSE LET j == CHOOSE x \in closing : \A y \in closing : x <= y
             IN  ParseOk(Val("str", SubSeq(ts, 2, j - 1)),
                         SubSeq(ts, j + 1, Len(ts)))

\* a number: the leading run of digits
ParseNumber(ts) ==
    LET n == CHOOSE i \in 1 .. Len(ts) :
                 /\ \A j \in 1 .. i : IsDigit(ts[j])
                 /\ (i = Len(ts) \/ ~IsDigit(ts[i + 1]))
    IN  ParseOk(Val("int", SubSeq(ts, 1, n)), SubSeq(ts, n + 1, Len(ts)))

RECURSIVE ParseValue(_), ParseItems(_, _), ParseMembers(_, _)
\* one JSON value at the start of the text
ParseValue(text) ==
    LET ts == SkipWs(text)
    IN  IF ts = <<>> THEN ParseFail
        ELSE IF ts[1] = Quote THEN ParseString(ts)
        ELSE IF IsDigit(ts[1]) THEN ParseNumber(ts)
        ELSE IF Len(ts) >= 4 /\ SubSeq(ts, 1, 4) = <<"n", "u", "l", "l">>
        THEN ParseOk(Val("none", <<>>), SubSeq(ts, 5, Len(ts)))
        ELSE IF ts[1] = "[" THEN
            LET r == SkipWs(Tail(ts))
            IN  IF r # <<>> /\ r[1] = "]"
                THEN ParseOk(Val("list", <<>>), Tail(r))
                ELSE ParseItems(r, <<>>)
        ELSE IF ts[1] = "{" THEN
            LET r == SkipWs(Tail(ts))
            IN  IF r # <<>> /\ r[1] = "}"
                THEN ParseOk(Val("dict", <<>>), Tail(r))
                ELSE ParseMembers(r, <<>>)
        ELSE ParseFail

\* the items of a list, after the bracket or a comma
ParseItems(ts, acc) ==
    LET v == ParseValue(ts)
        r == SkipWs(v.rest)
    IN  IF ~v.ok \/ r = <<>> THEN ParseFail
        ELSE IF r[1] = "," THEN ParseItems(Tail(r), Append(acc, v.val))
        ELSE IF r[1] = "]" THEN ParseOk(Val("list", Append(acc, v.val)), Tail(r))
        ELSE ParseFail

\* the members of an object, after the brace or a comma
ParseMembers(text, acc) ==
    LET ts == SkipWs(text)
        k == ParseString(ts)
        c == SkipWs(k.rest)
        v == ParseValue(Tail(c))
        r == SkipWs(v.rest)
    IN  IF ts = <<>> \/ ts[1] # Quote \/ ~k.ok THEN ParseFail
        ELSE IF c = <<>> \/ c[1] # ":" THEN ParseFail
        ELSE IF ~v.ok \/ r = <<>> THEN ParseFail
        ELSE IF r[1] = ","
        THEN ParseMembers(Tail(r), Append(acc, <<k.val.v, v.val>>))
        ELSE IF r[1] = "}"
        THEN ParseOk(Val("dict", Append(acc, <<k.val.v, v.val>>)), Tail(r))
        ELSE ParseFail

\* json.loads: one value and nothing after it, else JSONDecodeError
JsonLoads(text) ==
    LET v == ParseValue(text)
    IN  IF v.ok /\ SkipWs(v.rest) = <<>> THEN [ok |-> TRUE, val |-> v.val]
        ELSE [ok |-> FALSE, val |-> Val("none", <<>>)]

\* a decoded value is returned whatever its type
ParseConfigFieldNoTypeCheck(raw_data, expected_type, default_value) ==
    IF raw_data.t = "none" THEN default_value
    ELSE IF raw_data.t = expected_type THEN raw_data
    ELSE IF raw_data.t = "str" THEN
        LET parsed == JsonLoads(raw_data.v)
        IN  IF parsed.ok THEN parsed.val ELSE default_value
    ELSE default_value

\* _parse_config_field of _pick_subscriber
ParseConfigField(raw_data, expected_type, default_value) ==
    IF raw_data.t = "none" THEN default_value
    ELSE IF raw_data.t = expected_type THEN raw_data
    ELSE IF raw_data.t = "str" THEN
        LET parsed == JsonLoads(raw_data.v)
        IN  IF parsed.ok /\ parsed.val.t = expected_type THEN parsed.val
            ELSE default_value
    ELSE default_value

\* _pick_subscriber on an enrichment record that is not empty
PickSubscriber(anime) ==
    [group |-> ParseConfigField(anime.group_subscriber, "dict", Val("dict", <<>>)),
     private |-> ParseConfigField(anime.private_subscriber, "list", Val("list", <<>>))]

\* the raw records pick is called on
RawRecords ==
    [title : {NULL, "A"}, season : {NONE, 0, 1}, episode : {NONE, 0, 2},
     type : {NULL, "Movie", "MOVIE", "Series", "Episode", "Other"},
     merged_episode : {NONE, 3}, action : {NULL, "download"},
     id : IdValues, timestamp : Timestamps]

(* ------------------------------ PushBuffer ----------------------------- *)
\* _extract_episode_number: the first run of digits of the label, else 0
ExtractEpisodeNumber(episode_str) ==
    IF episode_str = NoStr THEN 0
    ELSE LET m == FirstDigitRun(episode_str)
         IN  IF m # <<>> THEN ToInt(m) ELSE 0

\* _extract_season_number: the first run of digits, else '1' (the 'none'
\* word has no digit and gives '1' on either path)
ExtractSeasonNumber(season_str) ==
    IF season_str = NoStr THEN <<"1">>
    ELSE LET m == FirstDigitRun(season_str)
         IN  IF m # <<>> THEN m ELSE <<"1">>

\* the season is left out of the key
BufferKeyTitleOnly(title, e) == <<title, <<"1">>>>

\* one bucket per title, season and source
BufferKeyPerSource(title, e) ==
    <<title, ExtractSeasonNumber(e.season), e.source>>

\* buffer_key = f"{title}_S{season}"
BufferKey(title, e) == <<title, ExtractSeasonNumber(e.season)>>

RECURSIVE SortedSeq(_)
\* sorted(set(...)) of a finite set of integers
SortedSeq(S) ==
    IF S = {} THEN <<>>
    ELSE LET m == CHOOSE x \in S : \A y \in S : x <= y
         IN  <<m>> \o SortedSeq(S \ {m})

\* the season of the events is not read
MergeSeasonDefault(episodes, i, season) == <<"1">>

RECURSIVE MergeSeason(_, _, _)
\* the loop of _merge_episodes over season: set once, while still None
MergeSeason(episodes, i, season) ==
    IF i > Len(episodes) THEN season
    ELSE MergeSeason(episodes, i + 1,
             IF season = NoStr THEN ExtractSeasonNumber(episodes[i].season)
             ELSE season)

\* the episode numbers _merge_episodes collects (zero results are skipped)
MergeNumbers(episodes) ==
    {ExtractEpisodeNumber(episodes[i].episode) : i \in 1 .. Len(episodes)}
        \ {0}

\* the action of the last event comes first, the labels only without it
MergeActionLastFirst(last) ==
    IF Truthy(last.action) THEN last.action
    ELSE IF last.source = "EMBY" THEN "library_batch_update"
    ELSE "merged_download"

\* action = episodes[-1].get('action'), replaced by the library label when
\* the source of the last event holds EMBY, else by the merged-download
\* label when it is empty
MergeAction(last) ==
    IF last.source = "EMBY" THEN "library_batch_update"
    ELSE IF ~Truthy(last.action) THEN "merged_download"
    ELSE last.action

\* the timestamp of the first event is kept
MergeTimestampFirst(episodes) == episodes[1].timestamp

\* 'timestamp': episodes[-1].get('timestamp')
MergeTimestamp(episodes) == episodes[Len(episodes)].timestamp

\* the image the merged event carries: merged = episodes[0].copy()
MergeImage(episodes) == episodes[1].image

\* _merge_episodes
MergeEpisodes(episodes, title) ==
    LET season == MergeSeason(episodes, 1, NoStr)
        numbers == SortedSeq(MergeNumbers(episodes))
        first == episodes[1]
    IN  [run |-> NoRun,
         id |-> first.id,
         title |-> title,
         episode |-> first.episode,
         source |-> first.source,
         action |-> MergeAction(episodes[Len(episodes)]),
         media_type |-> first.media_type,
         season |-> IF season # NoStr THEN season ELSE <<"1">>,
         image |-> MergeImage(episodes),
         timestamp |-> MergeTimestamp(episodes),
         episode_count |-> Len(numbers),
         episode_list |-> numbers,
         is_merged |-> TRUE]

\* f"{n:02d}"
Pad2(n) == IF n < 10 THEN <<"0">> \o Str(n) ELSE Str(n)

\* every run is written as a span
RangeTextAlwaysSpan(start, end) ==
    <<"E">> \o Pad2(start) \o <<"-", "E">> \o Pad2(end)

\* f"E{start:02d}" if start == end else f"E{start:02d}-E{end:02d}"
RangeText(start, end) ==
    IF start = end THEN <<"E">> \o Pad2(start)
    ELSE <<"E">> \o Pad2(start) \o <<"-", "E">> \o Pad2(end)

RECURSIVE FormatLoop(_, _, _, _, _)
\* the loop of _format_episode_range and the append that follows it
FormatLoop(episode_numbers, i, start, end, ranges) ==
    IF i > Len(episode_numbers) THEN Append(ranges, RangeText(start, end))
    ELSE IF episode_numbers[i] = end + 1
    THEN FormatLoop(episode_numbers, i + 1, start, episode_numbers[i], ranges)
    ELSE FormatLoop(episode_numbers, i + 1, episode_numbers[i],
                    episode_numbers[i], Append(ranges, RangeText(start, end)))

RECURSIVE Join(_, _)
\* ",".join(ranges), from the i-th element on
Join(ranges, i) ==
    IF i > Len(ranges) THEN <<>>
    ELSE (IF i > 1 THEN <<",">> ELSE <<>>) \o ranges[i] \o Join(ranges, i + 1)

\* _format_episode_range; "weizhi" stands for the marker of the empty list
FormatEpisodeRange(episode_numbers) ==
    IF episode_numbers = <<>> THEN <<"weizhi">>
    ELSE IF Len(episode_numbers) = 1
    THEN <<"E">> \o Pad2(episode_numbers[1])
    ELSE Join(FormatLoop(episode_numbers, 2, episode_numbers[1],
                         episode_numbers[1], <<>>), 1)

(* ------------------------------- state --------------------------------- *)
NoRec == <<>>
NoEv == [id |-> NoRec]
Images == {NULL, "cache.png"}
NoKey == <<>>

Put(f, k, v) == [x \in DOMAIN f \cup {k} |-> IF x = k THEN v ELSE f[x]]
Del(f, k) == [x \in DOMAIN f \ {k} |-> f[x]]
Min(a, b) == IF a < b THEN a ELSE b

\* the key of the bucket run r's event goes to
KeyOf(r) == BufferKey(ev[r].title, ev[r])

\* the tables at start: the rows up to some id were pushed earlier
SentUpTo(n) == [k \in RecKeys |-> IF k[2] <= n[k[1]] THEN 1 ELSE 0]

\* asyncio.Task.done(): finished or cancelled
TaskDone(t) == tstate[t] \in {"done", "cancelled"}

\* the select() calls that share one cache key: two concurrent runs
Selectors == {1, 2}

\* the candidate URLs left by _clean_image_queue
Urls == 1 .. MaxUrls

\* no file at a path
NoFile == <<>>

\* WORKDIR.cache_dir / f"{cache_key}.png" and res/default_img.png
CachePath == "cache.png"
DefaultPath == "default_img.png"

\* no select() call is in progress and the cache directory is empty
ImageIdle ==
    /\ env = [path |-> FALSE, default |-> FALSE, urls |-> 0]
    /\ cache = NoFile
    /\ tmp = NoFile
    /\ ipc = [i \in Selectors |-> "idle"]
    /\ output_img = [i \in Selectors |-> NULL]
    /\ is_image_expired = [i \in Selectors |-> FALSE]
    /\ fetch = [i \in Selectors |-> <<>>]
    /\ winner = [i \in Selectors |-> 0]
    /\ result = [i \in Selectors |-> NULL]

\* no function call is being looked at
NoArg == [fn |-> "none"]
NoOut == [done |-> FALSE]
CallIdle == arg = NoArg /\ out = NoOut

\* no run has started and the buffer is empty
PushIdle ==
    /\ pc = [r \in Runs |-> "init"]
    /\ src = [r \in Runs |-> NULL]
    /\ rec = [r \in Runs |-> NoRec]
    /\ ev = [r \in Runs |-> NoEv]
    /\ buffer = [k \in {} |-> <<>>]
    /\ locks = [k \in {} |-> NoRun]
    /\ waiters = [k \in {} |-> <<>>]
    /\ tasks = [k \in {} |-> NoRun]
    /\ tstate = [r \in Runs |-> "none"]
    /\ tkey = [r \in Runs |-> NoKey]
    /\ flushed = [r \in Runs |-> <<>>]
    /\ elapsed = [r \in Runs |-> 0]
    /\ since = [k \in {} |-> 0]
    /\ log = [r \in Runs |-> <<>>]

Init ==
    /\ ImageIdle /\ CallIdle
    /\ \E n \in [Sources -> 0 .. MaxId] : sent = SentUpTo(n)
    /\ pc = [r \in Runs |-> "init"]
    /\ src = [r \in Runs |-> NULL]
    /\ rec = [r \in Runs |-> NoRec]
    /\ ev = [r \in Runs |-> NoEv]
    /\ buffer = [k \in {} |-> <<>>]
    /\ locks = [k \in {} |-> NoRun]
    /\ waiters = [k \in {} |-> <<>>]
    /\ tasks = [k \in {} |-> NoRun]
    /\ tstate = [r \in Runs |-> "none"]
    /\ tkey = [r \in Runs |-> NoKey]
    /\ flushed = [r \in Runs |-> <<>>]
    /\ elapsed = [r \in Runs |-> 0]
    /\ since = [k \in {} |-> 0]
    /\ log = [r \in Runs |-> <<>>]

bufvars ==
    <<buffer, locks, waiters, tasks, tstate, tkey, flushed, elapsed, since>>

(* ------------------------- PushManager.execute ------------------------- *)
\* the rows of the table whatever their flag (the where clause is lost)
UnsentAnyFlag(s) == 1 .. MaxId

\* select ... where send_status = 0 order by id desc limit 1
Unsent(s) == {i \in 1 .. MaxId : sent[<<s, i>>] = 0}

\* the row with the greatest id, sent or not
SelectUnsendAny(s) == <<s, MaxId>>

\* the rows are ordered by ascending id: the oldest unsent row is taken
SelectUnsendOldest(s) ==
    IF Unsent(s) = {} THEN NoRec
    ELSE <<s, CHOOSE i \in Unsent(s) : \A j \in Unsent(s) : i <= j>>

SelectUnsend(s) ==
    IF Unsent(s) = {} THEN NoRec
    ELSE <<s, CHOOSE i \in Unsent(s) : \A j \in Unsent(s) : j <= i>>

\* the update has no where clause: every row of the table is marked
ChangeSendStatusWholeTable(flags, k) ==
    [x \in DOMAIN flags |-> IF x[1] = k[1] THEN 1 ELSE flags[x]]

\* the upsert is lost
ChangeSendStatusNoWrite(flags, k) == flags

\* upsert {"id": unsend_data_id, "send_status": 1}
ChangeSendStatus(flags, k) == [flags EXCEPT ![k] = 1]

\* the flag is written although the call raises
WriteSendStatusAlways(flags, k, ok) == [flags EXCEPT ![k] = 1]

\* _change_send_status: the upsert is applied, or it raises and nothing is
\* written
WriteSendStatus(flags, k, ok) ==
    IF ok THEN ChangeSendStatus(flags, k) ELSE flags

\* a run starts: fetch the unsent record, take its id, start the lookup
Fetch(r, s) ==
    /\ UNCHANGED <<imgvars, callvars>>
    /\ pc[r] = "init"
    /\ IF r = 1 THEN TRUE ELSE pc[r - 1] # "init"
    /\ src' = [src EXCEPT ![r] = s]
    /\ \E dbok \in BOOLEAN, idok \in BOOLEAN :
         IF ~dbok THEN
             /\ pc' = [pc EXCEPT ![r] = "aborted"]
             /\ rec' = rec
         ELSE IF SelectUnsend(s) = NoRec THEN
             /\ pc' = [pc EXCEPT ![r] = "noop"]
             /\ rec' = rec
         ELSE
             /\ rec' = [rec EXCEPT ![r] = SelectUnsend(s)]
             /\ pc' = [pc EXCEPT ![r] = IF idok THEN "enrich" ELSE "aborted"]
    /\ UNCHANGED <<sent, ev, bufvars, log>>

\* the enrichment lookup returns (hit, miss or error), then DataPicker.pick
Enrich(r) ==
    /\ UNCHANGED <<imgvars, callvars>>
    /\ pc[r] = "enrich"
    /\ \E res \in {"hit", "miss", "error"}, pickok \in BOOLEAN :
         LET anime == IF res = "hit" THEN AnimeHit ELSE AnimeDefault
         IN  IF pickok THEN
                 /\ ev' = [ev EXCEPT ![r] = Pick(r, rec[r], anime)]
                 /\ pc' = [pc EXCEPT ![r] = "image"]
             ELSE
                 /\ ev' = ev
                 /\ pc' = [pc EXCEPT ![r] = "aborted"]
    /\ UNCHANGED <<sent, src, rec, bufvars, log>>

\* ImageSelector.select returns (a path, or None also on error), then
\* _pushtarget_conflate
SelectImage(r) ==
    /\ UNCHANGED <<imgvars, callvars>>
    /\ pc[r] = "image"
    /\ \E img \in Images, targetok \in BOOLEAN :
         /\ ev' = [ev EXCEPT ![r] = IF targetok THEN [@ EXCEPT !.image = img]
                                   ELSE NoEv]
         /\ pc' = [pc EXCEPT ![r] = IF targetok THEN "commit" ELSE "aborted"]
    /\ UNCHANGED <<sent, src, rec, bufvars, log>>

\* add_episode that cancels the pending timer and starts none
AddLockedCancelOnly(r, k) ==
    /\ buffer' = Put(buffer, k,
                     (IF k \in DOMAIN buffer THEN buffer[k] ELSE <<>>)
                         \o <<ev[r]>>)
    /\ tstate' = [t \in Runs |->
                    IF k \in DOMAIN tasks /\ tasks[k] = t /\ ~TaskDone(t)
                    THEN "cancelled" ELSE tstate[t]]
    /\ elapsed' = elapsed
    /\ tasks' = Put(tasks, k, IF k \in DOMAIN tasks THEN tasks[k] ELSE NoRun)
    /\ tkey' = tkey
    /\ since' = Put(since, k, 0)
    /\ flushed' = flushed

\* add_episode without the cancel of the pending timer
AddLockedNoCancel(r, k) ==
    /\ buffer' = Put(buffer, k,
                     (IF k \in DOMAIN buffer THEN buffer[k] ELSE <<>>)
                         \o <<ev[r]>>)
    /\ tstate' = [tstate EXCEPT ![r] = "sleep"]
    /\ elapsed' = [elapsed EXCEPT ![r] = 0]
    /\ tasks' = Put(tasks, k, r)
    /\ tkey' = [tkey EXCEPT ![r] = k]
    /\ since' = Put(since, k, 0)
    /\ flushed' = flushed

\* the part of add_episode under the bucket lock: append, cancel, re-arm
AddLocked(r, k) ==
    /\ buffer' = Put(buffer, k,
                     (IF k \in DOMAIN buffer THEN buffer[k] ELSE <<>>)
                         \o <<ev[r]>>)
    /\ tstate' = [t \in Runs |->
                    IF t = r THEN "sleep"
                    ELSE IF k \in DOMAIN tasks /\ tasks[k] = t
                            /\ ~TaskDone(t) THEN "cancelled"
                    ELSE tstate[t]]
    /\ elapsed' = [t \in Runs |->
                    IF t = r \/ (k \in DOMAIN tasks /\ tasks[k] = t) THEN 0
                    ELSE elapsed[t]]
    /\ tasks' = Put(tasks, k, r)
    /\ tkey' = [tkey EXCEPT ![r] = k]
    /\ since' = Put(since, k, 0)
    /\ flushed' = flushed

\* _do_push up to its first await: render, then wait for the transport
DoPushStart(r, e, merged, rendered) ==
    log' = [log EXCEPT ![r] = Append(@,
               [merged |-> merged, ev |-> e,
                res |-> IF rendered THEN "pending" ELSE "render_fail"])]

\* the classification is compared as it is written
RouteToBufferCaseSensitive(media_type) == media_type \in {"episode", "series"}

\* the classification decides: TRUE for the Merge Buffer, FALSE for dispatch
RouteToBuffer(media_type) ==
    Truthy(media_type) /\ Lower(media_type) \in {"episode", "series"}

\* the sent flag is written, then title check and routing
Commit(r) ==
    /\ UNCHANGED <<imgvars, callvars>>
    /\ pc[r] = "commit"
    /\ \E ok \in BOOLEAN, rendered \in BOOLEAN :
         IF ~ok THEN
             /\ sent' = WriteSendStatus(sent, rec[r], ok)
             /\ pc' = [pc EXCEPT ![r] = "aborted"]
             /\ ev' = [ev EXCEPT ![r] = NoEv]
             /\ UNCHANGED <<bufvars, log>>
         ELSE
             /\ sent' = WriteSendStatus(sent, rec[r], ok)
             /\ IF ~Truthy(ev[r].title) THEN
                    /\ pc' = [pc EXCEPT ![r] = "notitle"]
                    /\ ev' = [ev EXCEPT ![r] = NoEv]
                    /\ UNCHANGED <<bufvars, log>>
                ELSE IF RouteToBuffer(ev[r].media_type) THEN
                    LET k == KeyOf(r)
                    IN  IF k \in DOMAIN locks
                           /\ (locks[k] # NoRun \/ waiters[k] # <<>>) THEN
                            /\ waiters' = [waiters EXCEPT
                                             ![k] = Append(@, r)]
                            /\ pc' = [pc EXCEPT ![r] = "lockwait"]
                            /\ UNCHANGED <<ev, buffer, locks, tasks, tstate,
                                           tkey, flushed, elapsed, since,
                                           log>>
                        ELSE
                            /\ locks' = Put(locks, k, NoRun)
                            /\ waiters' = Put(waiters, k, <<>>)
                            /\ AddLocked(r, k)
                            /\ pc' = [pc EXCEPT ![r] = "buffered"]
                            /\ ev' = [ev EXCEPT ![r] = NoEv]
                            /\ log' = log
                ELSE
                    /\ DoPushStart(r, ev[r], FALSE, rendered)
                    /\ pc' = [pc EXCEPT
                                ![r] = IF rendered THEN "pushing" ELSE "done"]
                    /\ ev' = [ev EXCEPT ![r] = NoEv]
                    /\ UNCHANGED bufvars
    /\ UNCHANGED <<src, rec>>

\* a run that waited for the bucket lock gets it and adds its event
AddAfterWait(r) ==
    /\ UNCHANGED <<imgvars, callvars>>
    /\ pc[r] = "lockwait"
    /\ LET k == KeyOf(r)
       IN  /\ locks[k] = NoRun
           /\ waiters[k] # <<>> /\ Head(waiters[k]) = r
           /\ waiters' = [waiters EXCEPT ![k] = Tail(@)]
           /\ AddLocked(r, k)
    /\ pc' = [pc EXCEPT ![r] = "buffered"]
    /\ ev' = [ev EXCEPT ![r] = NoEv]
    /\ UNCHANGED <<sent, src, rec, locks, log>>

\* the result of the pending call of run r's _do_push
SetResult(r, res) ==
    [log EXCEPT ![r] = [i \in 1 .. Len(@) |->
        IF @[i].res = "pending" THEN [@[i] EXCEPT !.res = res] ELSE @[i]]]

\* the transport returns, or raises, on an immediate dispatch
PushEnd(r) ==
    /\ UNCHANGED <<imgvars, callvars>>
    /\ pc[r] = "pushing"
    /\ \E res \in {"sent", "raised"} : log' = SetResult(r, res)
    /\ pc' = [pc EXCEPT ![r] = "done"]
    /\ UNCHANGED <<sent, src, rec, ev, bufvars>>

(* ------------------------ PushBuffer._delayed_push --------------------- *)
\* asyncio.sleep(60) is over
SleepOver(t) == tstate[t] = "sleep" /\ elapsed[t] >= Delay

\* the bucket is kept when the callback returned
BucketKeptAfterReturn(buf, k, res) == IF res = "sent" THEN buf ELSE Del(buf, k)

\* the bucket is kept when the callback raised
BucketKeptAfterRaise(buf, k, res) == IF res = "raised" THEN buf ELSE Del(buf, k)

\* the bucket after the flush: del self.buffer[buffer_key], after the
\* callback returned and in the except branch after it raised
BucketAfterFlush(buf, k, res) == Del(buf, k)

\* the timer of task t expires: lock, merge, call the callback
FlushBegin(t) ==
    /\ UNCHANGED <<imgvars, callvars>>
    /\ SleepOver(t)
    /\ LET k == tkey[t]
       IN  /\ locks[k] = NoRun /\ waiters[k] = <<>>
           /\ IF k \notin DOMAIN buffer \/ buffer[k] = <<>> THEN
                  /\ tstate' = [tstate EXCEPT ![t] = "done"]
                  /\ UNCHANGED <<buffer, locks, since, flushed, log>>
              ELSE
                  \E rendered \in BOOLEAN :
                    /\ flushed' = [flushed EXCEPT ![t] = buffer[k]]
                    /\ DoPushStart(t, MergeEpisodes(buffer[k],
                                                    buffer[k][1].title),
                                   TRUE, rendered)
                    /\ IF rendered THEN
                           /\ locks' = [locks EXCEPT ![k] = t]
                           /\ tstate' = [tstate EXCEPT ![t] = "flush"]
                           /\ UNCHANGED <<buffer, since>>
                       ELSE
                           /\ buffer' = BucketAfterFlush(buffer, k,
                                                         "render_fail")
                           /\ since' = Del(since, k)
                           /\ tstate' = [tstate EXCEPT ![t] = "done"]
                           /\ locks' = locks
    /\ elapsed' = [elapsed EXCEPT ![t] = 0]
    /\ UNCHANGED <<sent, pc, src, rec, ev, waiters, tasks, tkey>>

\* the callback returns or raises: the bucket is cleared either way
FlushEnd(t) ==
    /\ UNCHANGED <<imgvars, callvars>>
    /\ tstate[t] = "flush"
    /\ \E res \in {"sent", "raised"} :
         /\ log' = SetResult(t, res)
         /\ buffer' = BucketAfterFlush(buffer, tkey[t], res)
    /\ since' = [k \in DOMAIN buffer' |-> since[k]]
    /\ locks' = [locks EXCEPT ![tkey[t]] = NoRun]
    /\ tstate' = [tstate EXCEPT ![t] = "done"]
    /\ UNCHANGED <<sent, pc, src, rec, ev, waiters, tasks, tkey, flushed,
                   elapsed>>

\* time passes
Tick(d) ==
    /\ UNCHANGED <<imgvars, callvars>>
    /\ \E t \in Runs : tstate[t] = "sleep" /\ elapsed[t] < Delay
    /\ elapsed' = [t \in Runs |->
                     IF tstate[t] = "sleep"
                     THEN Min(Delay, elapsed[t] + d) ELSE elapsed[t]]
    /\ since' = [k \in DOMAIN since |-> Min(Delay, since[k] + d)]
    /\ UNCHANGED <<sent, pc, src, rec, ev, buffer, locks, waiters, tasks,
                   tstate, tkey, flushed, log>>

Next ==
    \/ \E r \in Runs, s \in Sources : Fetch(r, s)
    \/ \E r \in Runs : Enrich(r)
    \/ \E r \in Runs : SelectImage(r)
    \/ \E r \in Runs : Commit(r)
    \/ \E r \in Runs : AddAfterWait(r)
    \/ \E r \in Runs : PushEnd(r)
    \/ \E t \in Runs : FlushBegin(t)
    \/ \E t \in Runs : FlushEnd(t)
    \/ \E d \in {10} : Tick(d)

Spec == Init /\ [][Next]_vars

(* ------------------- PushManager.execute from the commit --------------- *)
\* the rows a run may have picked its event from, one per classification
RouteRows ==
    [title : {NULL, "A"}, season : {NONE, 1, 2}, episode : {NONE, 2},
     type : {NULL, "Movie", "MOVIE", "movie", "Series", "EPISODE", "Other"},
     merged_episode : {NONE}, action : {NULL}, timestamp : {NoStr}]

\* the runs stand before the write of the sent flag: the first with the
\* event of any row of any source, the others with an episode of "A"
InitRoute ==
    /\ ImageIdle /\ CallIdle
    /\ sent = SentUpTo([s \in Sources |-> 0])
    /\ pc = [r \in Runs |-> "commit"]
    /\ \E s \in Sources, row \in RouteRows :
         /\ src = [r \in Runs |-> IF r = 1 THEN s ELSE "EMBY"]
         /\ rec = [r \in Runs |-> <<src[r], ((r - 1) % MaxId) + 1>>]
         /\ ev = [r \in Runs |->
                    PickRow(r, rec[r],
                            IF r = 1 THEN row
                            ELSE [title |-> "A", season |-> 1, episode |-> 3,
                                  type |-> "Episode", merged_episode |-> NONE,
                                  action |-> NULL, timestamp |-> NoStr],
                            AnimeDefault)]
    /\ buffer = [k \in {} |-> <<>>]
    /\ locks = [k \in {} |-> NoRun]
    /\ waiters = [k \in {} |-> <<>>]
    /\ tasks = [k \in {} |-> NoRun]
    /\ tstate = [r \in Runs |-> "none"]
    /\ tkey = [r \in Runs |-> NoKey]
    /\ flushed = [r \in Runs |-> <<>>]
    /\ elapsed = [r \in Runs |-> 0]
    /\ since = [k \in {} |-> 0]
    /\ log = [r \in Runs |-> <<>>]

NextRoute ==
    \/ \E r \in Runs : Commit(r)
    \/ \E r \in Runs : AddAfterWait(r)
    \/ \E r \in Runs : PushEnd(r)
    \/ \E t \in Runs : FlushBegin(t)
    \/ \E t \in Runs : FlushEnd(t)
    \/ \E d \in {10} : Tick(d)

SpecRoute == InitRoute /\ [][NextRoute]_vars

\* the runs stand before the write of the sent flag, each with an episode
\* of "A": the first of season 1 or 2 and any source, the others of season 1
InitEpisodes ==
    /\ ImageIdle /\ CallIdle
    /\ sent = SentUpTo([s \in Sources |-> 0])
    /\ pc = [r \in Runs |-> "commit"]
    /\ \E s \in Sources,
          row \in {w \in RouteRows : /\ w.title = "A" /\ w.type = "EPISODE"
                                     /\ w.season # NONE /\ w.episode # NONE} :
         /\ src = [r \in Runs |-> IF r = 1 THEN s ELSE "EMBY"]
         /\ rec = [r \in Runs |-> <<src[r], ((r - 1) % MaxId) + 1>>]
         /\ ev = [r \in Runs |->
                    PickRow(r, rec[r],
                            IF r = 1 THEN row
                            ELSE [title |-> "A", season |-> 1, episode |-> 3,
                                  type |-> "Episode", merged_episode |-> NONE,
                                  action |-> NULL, timestamp |-> NoStr],
                            AnimeDefault)]
    /\ buffer = [k \in {} |-> <<>>]
    /\ locks = [k \in {} |-> NoRun]
    /\ waiters = [k \in {} |-> <<>>]
    /\ tasks = [k \in {} |-> NoRun]
    /\ tstate = [r \in Runs |-> "none"]
    /\ tkey = [r \in Runs |-> NoKey]
    /\ flushed = [r \in Runs |-> <<>>]
    /\ elapsed = [r \in Runs |-> 0]
    /\ since = [k \in {} |-> 0]
    /\ log = [r \in Runs |-> <<>>]

\* the steps of runs whose events all go to the buffer
NextBuffer ==
    \/ \E r \in Runs : Commit(r)
    \/ \E r \in Runs : AddAfterWait(r)
    \/ \E t \in Runs : FlushBegin(t)
    \/ \E t \in Runs : FlushEnd(t)
    \/ \E d \in {10} : Tick(d)

\* the event loop runs every task that is ready: a step is taken as long as
\* one is possible (timers expire, callbacks return)
FairBuffer == InitEpisodes /\ [][NextBuffer]_vars /\ WF_vars(NextBuffer)

\* the tables after earlier cycles pushed every library record but the
\* oldest one, the record without a title of its own
InitTitle ==
    /\ ImageIdle /\ CallIdle /\ PushIdle
    /\ sent = [k \in RecKeys |->
                 IF k[1] = "EMBY" /\ k[2] > 1 THEN 1 ELSE 0]

SpecTitle == InitTitle /\ [][Next]_vars

(* ----------------------------- ImageSelector --------------------------- *)
\* expire_hours = 14 * 24
ExpireHours == 14 * 24

\* modification ages of a cache file, in hours
Ages == {0, ExpireHours, ExpireHours + 1}

\* a cache file: its bytes, its modification age, and whether stat() fails
Files == [content : {<<"old", 0>>}, age : Ages, staterr : BOOLEAN]

\* the bytes fetched from candidate u
Bytes(u) == <<"new", u>>

\* every cache file counts as expired
IsCacheImgExpiredAlways(f) == TRUE

\* a file aged exactly expire_hours counts as expired
IsCacheImgExpiredAtLimit(f) == f.staterr \/ f.age >= ExpireHours

\* _is_cache_img_expired: older than expire_hours, or any error
IsCacheImgExpired(f) == f.staterr \/ f.age > ExpireHours

\* _search_in_localstore: the path found and self.is_image_expired
SearchInLocalstore ==
    IF ~env.path \/ cache = NoFile
    THEN [img |-> NULL, expired |-> FALSE]
    ELSE [img |-> CachePath, expired |-> IsCacheImgExpired(cache)]

\* the default image is returned without looking for it
GetDefaultImageNoCheck == DefaultPath

\* _get_default_image
GetDefaultImage == IF env.default THEN DefaultPath ELSE NULL

\* the stale image is never used
FallbackToDefaultOnly(img, file) == GetDefaultImage

\* _fallback_to_available_image, with self.output_img and the cache file
FallbackToAvailableImage(img, file) ==
    IF img # NULL /\ file # NoFile THEN img ELSE GetDefaultImage

\* the ways _save_bytes_to_cache ends
SaveOutcomes == {"saved", "mkdir_fail", "write_fail", "move_fail"}

\* the temp file after _save_bytes_to_cache: moved away, or removed by the
\* except branch unless unlink fails too
TmpAfterSave(bytes, how, unlinked) ==
    CASE how = "saved" -> NoFile
      [] how = "mkdir_fail" -> tmp
      [] how = "write_fail" -> IF unlinked THEN NoFile ELSE <<"partial", 0>>
      [] how = "move_fail" -> IF unlinked THEN NoFile ELSE bytes

\* the bytes are written to the destination itself
CacheAfterSaveInPlace(bytes, how) ==
    IF env.path /\ how \in {"saved", "write_fail"}
    THEN [content |-> IF how = "saved" THEN bytes ELSE <<"partial", 0>>,
          age |-> 0, staterr |-> FALSE]
    ELSE cache

\* the cache file after _save_bytes_to_cache: replaced by the move only
CacheAfterSave(bytes, how) ==
    IF env.path /\ how = "saved"
    THEN [content |-> bytes, age |-> 0, staterr |-> FALSE]
    ELSE cache

\* the value _save_bytes_to_cache returns
SavedPath(how) == IF env.path /\ how = "saved" THEN CachePath ELSE NULL

\* select() up to its first await: the cache lookup, and either the return
\* of a fresh image, the fallback when there is nothing to fetch, or the
\* start of one fetch per candidate
SelectStart(i) ==
    /\ ipc[i] = "idle"
    /\ LET found == SearchInLocalstore
       IN  /\ output_img' = [output_img EXCEPT ![i] = found.img]
           /\ is_image_expired' = [is_image_expired EXCEPT ![i] = found.expired]
           /\ IF found.img # NULL /\ ~found.expired
              THEN /\ result' = [result EXCEPT ![i] = found.img]
                   /\ ipc' = [ipc EXCEPT ![i] = "done"]
                   /\ fetch' = fetch
              ELSE IF env.urls = 0
              THEN /\ result' = [result EXCEPT ![i] =
                                   FallbackToAvailableImage(found.img, cache)]
                   /\ ipc' = [ipc EXCEPT ![i] = "done"]
                   /\ fetch' = fetch
              ELSE /\ fetch' = [fetch EXCEPT ![i] =
                                   [u \in 1 .. env.urls |-> "flying"]]
                   /\ ipc' = [ipc EXCEPT ![i] = "download"]
                   /\ result' = result
    /\ UNCHANGED <<env, cache, tmp, winner>>
    /\ UNCHANGED <<pushvars, callvars>>

\* one fetch of the race completes: with bytes, with nothing, or by raising;
\* the first that does not raise is the one as_completed hands to select()
FetchEnd(i, u, res) ==
    /\ ipc[i] = "download"
    /\ u \in DOMAIN fetch[i]
    /\ fetch[i][u] = "flying"
    /\ IF winner[i] # 0
       THEN /\ fetch' = [fetch EXCEPT ![i][u] = "late"]
            /\ winner' = winner
       ELSE /\ fetch' = [fetch EXCEPT ![i][u] = res]
            /\ winner' = [winner EXCEPT ![i] = IF res = "fail" THEN 0 ELSE u]
    /\ UNCHANGED <<env, cache, tmp, ipc, output_img, is_image_expired, result>>
    /\ UNCHANGED <<pushvars, callvars>>

\* the fetches in flight are left running
ResumeNoCancel(i, how, unlinked) ==
    /\ ipc[i] = "download"
    /\ \/ winner[i] # 0
       \/ \A u \in DOMAIN fetch[i] : fetch[i][u] = "fail"
    /\ fetch' = fetch
    /\ IF winner[i] # 0 /\ fetch[i][winner[i]] = "ok" /\ env.path
       THEN /\ cache' = CacheAfterSave(Bytes(winner[i]), how)
            /\ tmp' = TmpAfterSave(Bytes(winner[i]), how, unlinked)
            /\ IF SavedPath(how) # NULL
               THEN /\ output_img' = [output_img EXCEPT ![i] = SavedPath(how)]
                    /\ result' = [result EXCEPT ![i] = SavedPath(how)]
               ELSE /\ output_img' = output_img
                    /\ result' = [result EXCEPT ![i] =
                          FallbackToAvailableImage(output_img[i], cache')]
       ELSE /\ how = "saved" /\ unlinked
            /\ UNCHANGED <<cache, tmp, output_img>>
            /\ result' = [result EXCEPT ![i] =
                             FallbackToAvailableImage(output_img[i], cache)]
    /\ ipc' = [ipc EXCEPT ![i] = "done"]
    /\ UNCHANGED <<env, is_image_expired, winner>>
    /\ UNCHANGED <<pushvars, callvars>>

\* select() resumes: it adopts the first fetch that returned, cancels the
\* fetches still in flight and saves the bytes, or it falls back when the
\* bytes are empty, the save fails or every fetch raised
Resume(i, how, unlinked) ==
    /\ ipc[i] = "download"
    /\ \/ winner[i] # 0
       \/ \A u \in DOMAIN fetch[i] : fetch[i][u] = "fail"
    /\ fetch' = [fetch EXCEPT ![i] =
                    [u \in DOMAIN fetch[i] |->
                        IF fetch[i][u] = "flying" THEN "cancelled"
                        ELSE fetch[i][u]]]
    /\ IF winner[i] # 0 /\ fetch[i][winner[i]] = "ok" /\ env.path
       THEN /\ cache' = CacheAfterSave(Bytes(winner[i]), how)
            /\ tmp' = TmpAfterSave(Bytes(winner[i]), how, unlinked)
            /\ IF SavedPath(how) # NULL
               THEN /\ output_img' = [output_img EXCEPT ![i] = SavedPath(how)]
                    /\ result' = [result EXCEPT ![i] = SavedPath(how)]
               ELSE /\ output_img' = output_img
                    /\ result' = [result EXCEPT ![i] =
                          FallbackToAvailableImage(output_img[i], cache')]
       ELSE /\ how = "saved" /\ unlinked
            /\ UNCHANGED <<cache, tmp, output_img>>
            /\ result' = [result EXCEPT ![i] =
                             FallbackToAvailableImage(output_img[i], cache)]
    /\ ipc' = [ipc EXCEPT ![i] = "done"]
    /\ UNCHANGED <<env, is_image_expired, winner>>
    /\ UNCHANGED <<pushvars, callvars>>

\* the cache directory and the inputs of the select() calls
InitImage ==
    /\ PushIdle /\ CallIdle
    /\ sent = SentUpTo([s \in Sources |-> 0])
    /\ env \in [path : BOOLEAN, default : BOOLEAN, urls : 0 .. MaxUrls]
    /\ cache \in (IF env.path THEN {NoFile} \cup Files ELSE {NoFile})
    /\ tmp = NoFile
    /\ ipc = [i \in Selectors |-> "idle"]
    /\ output_img = [i \in Selectors |-> NULL]
    /\ is_image_expired = [i \in Selectors |-> FALSE]
    /\ fetch = [i \in Selectors |-> <<>>]
    /\ winner = [i \in Selectors |-> 0]
    /\ result = [i \in Selectors |-> NULL]

NextImage ==
    \/ \E i \in Selectors : SelectStart(i)
    \/ \E i \in Selectors, u \in Urls, res \in {"ok", "empty", "fail"} :
          FetchEnd(i, u, res)
    \/ \E i \in Selectors, how \in SaveOutcomes, unlinked \in BOOLEAN :
          Resume(i, how, unlinked)

SpecImage == InitImage /\ [][NextImage]_vars

\* the tmdb_id a selector may be built with: None, '', str(None) and an id
TmdbIds == {NULL, "", "None", "5"}

\* the emby_series_id a selector may be built with
SeriesIds == {NULL, "3"}

\* the sentinel counts as an id
CacheKeyNoSentinel(tmdb_id, series_id) ==
    IF Truthy(tmdb_id) THEN <<tmdb_id>>
    ELSE IF Truthy(series_id) THEN <<"emby_", series_id>>
    ELSE <<>>

\* cache_key of _get_cache_path, <<>> for None
CacheKey(tmdb_id, series_id) ==
    IF Truthy(tmdb_id) /\ tmdb_id # "None" THEN <<tmdb_id>>
    ELSE IF Truthy(series_id) THEN <<"emby_", series_id>>
    ELSE <<>>

\* _get_cache_path: WORKDIR.cache_dir / f"{cache_key}.png", <<>> for None
GetCachePath(tmdb_id, series_id, cache_dir) ==
    IF CacheKey(tmdb_id, series_id) # <<>> /\ cache_dir
    THEN <<"cache_dir", "/">> \o CacheKey(tmdb_id, series_id) \o <<".png">>
    ELSE <<>>

\* the select() calls of selectors built with the same ids: the cache path
\* is there when _get_cache_path gives one; the cache directory may hold a
\* fresh or an expired file also when it does not
InitCache ==
    /\ PushIdle
    /\ sent = SentUpTo([s \in Sources |-> 0])
    /\ arg \in [fn : {"select"}, tmdb_id : TmdbIds,
                emby_series_id : SeriesIds, cache_dir : BOOLEAN]
    /\ out = NoOut
    /\ env \in [path : {GetCachePath(arg.tmdb_id, arg.emby_series_id,
                                      arg.cache_dir) # <<>>},
                default : BOOLEAN, urls : 0 .. MaxUrls]
    /\ cache \in (IF arg.cache_dir
                  THEN {NoFile} \cup {f \in Files : ~f.staterr /\ f.age # ExpireHours}
                  ELSE {NoFile})
    /\ tmp = NoFile
    /\ ipc = [i \in Selectors |-> "idle"]
    /\ output_img = [i \in Selectors |-> NULL]
    /\ is_image_expired = [i \in Selectors |-> FALSE]
    /\ fetch = [i \in Selectors |-> <<>>]
    /\ winner = [i \in Selectors |-> 0]
    /\ result = [i \in Selectors |-> NULL]

SpecCache == InitCache /\ [][NextImage]_vars

(* ------------------------ single function calls ------------------------ *)
\* picker = DataPicker(source, unsend_data, anime_db_data)
InitPick ==
    /\ PushIdle /\ ImageIdle
    /\ sent = SentUpTo([s \in Sources |-> 0])
    /\ arg \in [fn : {"pick"}, source : Sources, raw : RawRecords,
                anime : {AnimeHit, AnimeDefault}]
    /\ out = NoOut

\* message_params = picker.pick()
PickCall ==
    /\ arg.fn = "pick" /\ ~out.done
    /\ out' = IF PickRaises(arg.source, arg.raw, arg.anime)
              THEN [done |-> TRUE, raised |-> TRUE, event |-> NoEv]
              ELSE [done |-> TRUE, raised |-> FALSE,
                    event |-> PickEvent(arg.source, arg.raw, arg.anime)]
    /\ UNCHANGED <<arg, pushvars, imgvars>>

SpecPick == InitPick /\ [][PickCall]_vars

RECURSIVE JsonDumps(_), DumpItems(_, _), DumpMembers(_, _)
\* json.dumps, the text under which a subscriber value is stored
JsonDumps(val) ==
    CASE val.t = "str" -> <<Quote>> \o val.v \o <<Quote>>
      [] val.t = "int" -> val.v
      [] val.t = "none" -> <<"n", "u", "l", "l">>
      [] val.t = "list" -> <<"[">> \o DumpItems(val.v, 1) \o <<"]">>
      [] val.t = "dict" -> <<"{">> \o DumpMembers(val.v, 1) \o <<"}">>

DumpItems(items, i) ==
    IF i > Len(items) THEN <<>>
    ELSE (IF i > 1 THEN <<",", " ">> ELSE <<>>)
             \o JsonDumps(items[i]) \o DumpItems(items, i + 1)

DumpMembers(members, i) ==
    IF i > Len(members) THEN <<>>
    ELSE (IF i > 1 THEN <<",", " ">> ELSE <<>>)
             \o <<Quote>> \o members[i][1] \o <<Quote, ":", " ">>
             \o JsonDumps(members[i][2]) \o DumpMembers(members, i + 1)

\* the values a subscriber field is made from: mappings, lists, a number
\* and a string
SubscriberValues ==
    {Val("dict", <<>>),
     Val("dict", << <<(<<"g", "1">>),
                      Val("list", <<Val("str", <<"u", "1">>),
                                    Val("str", <<"u", "2">>)>>)>> >>),
     Val("list", <<>>),
     Val("list", <<Val("str", <<"u", "1">>), Val("str", <<"u", "2">>)>>),
     Val("int", <<"5">>),
     Val("str", <<"u", "1">>)}

\* the ways the value reaches the field: as it is, as JSON text, as JSON
\* text cut short, or not at all
Forms == {"native", "json", "malformed", "null"}

\* the field of the enrichment record
Stored(val, form) ==
    CASE form = "native" -> val
      [] form = "json" -> Val("str", JsonDumps(val))
      [] form = "malformed" ->
           Val("str", SubSeq(JsonDumps(val), 1, Len(JsonDumps(val)) - 1))
      [] form = "null" -> Val("none", <<>>)

\* DataPicker(source, unsend_data, anime_db_data) with subscriber fields
InitSubscriber ==
    /\ PushIdle /\ ImageIdle
    /\ sent = SentUpTo([s \in Sources |-> 0])
    /\ arg \in [fn : {"subscriber"},
                gval : SubscriberValues, gform : Forms,
                pval : SubscriberValues, pform : Forms]
    /\ out = NoOut

\* group_subscriber, private_subscriber = self._pick_subscriber()
SubscriberCall ==
    /\ arg.fn = "subscriber" /\ ~out.done
    /\ LET picked == PickSubscriber(
                         [group_subscriber |-> Stored(arg.gval, arg.gform),
                          private_subscriber |-> Stored(arg.pval, arg.pform)])
       IN  out' = [done |-> TRUE, raised |-> FALSE,
                   group |-> picked.group, private |-> picked.private]
    /\ UNCHANGED <<arg, pushvars, imgvars>>

SpecSubscriber == InitSubscriber /\ [][SubscriberCall]_vars

\* the sorted lists of distinct episode numbers: sorted(set(episode_numbers))
EpisodeLists == {SortedSeq(S) : S \in SUBSET (1 .. MaxEp)}

InitFormat ==
    /\ PushIdle /\ ImageIdle
    /\ sent = SentUpTo([s \in Sources |-> 0])
    /\ arg \in [fn : {"format"}, episode_numbers : EpisodeLists]
    /\ out = NoOut

\* episode_range = self._format_episode_range(episode_numbers)
FormatCall ==
    /\ arg.fn = "format" /\ ~out.done
    /\ out' = [done |-> TRUE, raised |-> FALSE,
               text |-> FormatEpisodeRange(arg.episode_numbers)]
    /\ UNCHANGED <<arg, pushvars, imgvars>>

SpecFormat == InitFormat /\ [][FormatCall]_vars

(* ----------------------- DataPicker._pick_tmdb_url --------------------- *)
\* the values of the raw tmdb_url field: None, '', blanks, a padded URL and
\* a number
UrlValues ==
    {Val("none", <<>>), Val("str", <<>>), Val("str", <<" ">>),
     Val("str", <<" ", "u", " ">>), Val("int", <<"7">>)}

\* one entry of external_urls, a missing key being NULL
UrlObj(Name, name, Url, url) ==
    [Name |-> Name, name |-> name, Url |-> Url, url |-> url]

\* the values of the raw external_urls field: absent, not a list, and lists
ExternalUrls ==
    {Val("none", <<>>), Val("str", <<>>), Val("list", <<>>),
     Val("list", <<UrlObj("Bangumi", NULL, "b", NULL)>>),
     Val("list", <<UrlObj(NULL, "themoviedb", NULL, "e")>>),
     Val("list", <<UrlObj("TheMovieDb", NULL, NULL, NULL),
                   UrlObj("Bangumi", NULL, "b", NULL),
                   UrlObj("TheMovieDb", NULL, "f", NULL)>>)}

\* the raw records _pick_tmdb_url may be given
UrlRecords ==
    [tmdb_url : UrlValues,
     tmdbUrl : {Val("none", <<>>), Val("str", <<"v">>)},
     external_urls : ExternalUrls,
     tmdb_id : {NULL, "5"},
     type : {NULL, "", "Movie", "MOVIE", "movie", "Episode", "Other"},
     season : {NONE, 1}, episode : {NONE, 2}]

\* str.strip() for blanks
Strip(s) ==
    IF \A i \in 1 .. Len(s) : s[i] = " " THEN <<>>
    ELSE LET a == CHOOSE i \in 1 .. Len(s) :
                      s[i] # " " /\ \A j \in 1 .. i - 1 : s[j] = " "
             b == CHOOSE i \in 1 .. Len(s) :
                      s[i] # " " /\ \A j \in i + 1 .. Len(s) : s[j] = " "
         IN  SubSeq(s, a, b)

\* _pick_tmdb_id: the raw tmdb_id, else the enrichment's, else None
PickTmdbId(s, row, anime) ==
    IF Truthy(row.tmdb_id) THEN row.tmdb_id
    ELSE IF Truthy(anime.tmdb_id) THEN anime.tmdb_id
    ELSE NULL

\* source_data.get('tmdb_url') or source_data.get('tmdbUrl'), stripped when
\* it is a non-blank string, <<>> otherwise
RawTmdbUrl(row) ==
    LET tmdb_url == IF ValTruthy(row.tmdb_url) THEN row.tmdb_url
                    ELSE row.tmdbUrl
    IN  IF ValTruthy(tmdb_url) /\ tmdb_url.t = "str"
        THEN Strip(tmdb_url.v) ELSE <<>>

\* x or y on two plain strings
Or(x, y) == IF Truthy(x) THEN x ELSE y

RECURSIVE ScanExternalUrls(_, _)
\* the loop over external_urls from entry i on: the Url of the first entry
\* named themoviedb that has one, <<>> when there is none
ScanExternalUrls(urls, i) ==
    IF i > Len(urls) THEN <<>>
    ELSE LET name == IF Truthy(urls[i].Name) THEN urls[i].Name
                     ELSE IF urls[i].name = NULL THEN "" ELSE urls[i].name
             url == Or(urls[i].Url, urls[i].url)
         IN  IF Lower(name) = "themoviedb" /\ Truthy(url) THEN <<url>>
             ELSE ScanExternalUrls(urls, i + 1)

\* the library-origin scan of external_urls, when it is a list
ExternalTmdbUrl(s, row) ==
    IF s = "EMBY" /\ row.external_urls.t = "list"
    THEN ScanExternalUrls(row.external_urls.v, 1) ELSE <<>>

\* "tv" if media_type and media_type.lower() != 'movie' else "movie"
TypePath(media_type) ==
    IF Truthy(media_type) /\ Lower(media_type) # "movie" THEN "tv"
    ELSE "movie"

\* f"{base}/{type_path}/{tmdb_id}"
SynthesizedUrl(type_path, tmdb_id) ==
    <<"https://www.themoviedb.org", "/", type_path, "/", tmdb_id>>

\* _pick_tmdb_url, <<>> for None
PickTmdbUrl(s, row, anime) ==
    IF RawTmdbUrl(row) # <<>> THEN RawTmdbUrl(row)
    ELSE IF ExternalTmdbUrl(s, row) # <<>> THEN ExternalTmdbUrl(s, row)
    ELSE IF Truthy(PickTmdbId(s, row, anime))
    THEN SynthesizedUrl(TypePath(PickMediaType(s, row)),
                        PickTmdbId(s, row, anime))
    ELSE <<>>

InitUrl ==
    /\ PushIdle /\ ImageIdle
    /\ sent = SentUpTo([s \in Sources |-> 0])
    /\ arg \in [fn : {"tmdb_url"}, source : Sources, raw : UrlRecords,
                anime : [tmdb_id : {NULL, "6"}]]
    /\ out = NoOut

\* "tmdb_url": self._pick_tmdb_url()
UrlCall ==
    /\ arg.fn = "tmdb_url" /\ ~out.done
    /\ out' = [done |-> TRUE, raised |-> FALSE,
               url |-> PickTmdbUrl(arg.source, arg.raw, arg.anime)]
    /\ UNCHANGED <<arg, pushvars, imgvars>>

SpecUrl == InitUrl /\ [][UrlCall]_vars

(* -------------------- PushManager._pushtarget_conflate ----------------- *)
\* set(map(str, ids)): the texts of a list of ids
StrSet(ids) == {ids[i].v : i \in 1 .. Len(ids)}

\* dict.get(key, []) on a mapping written as a sequence of <<key, list>>
DictGet(d, key) ==
    IF \E i \in 1 .. Len(d) : d[i][1] = key
    THEN d[CHOOSE i \in 1 .. Len(d) : d[i][1] = key][2]
    ELSE <<>>

\* int(group_id) is reached, and raises ValueError: the string key gave no
\* subscribers and the id is not a number
GroupRaises(group_subscribers, group_id) ==
    /\ DictGet(group_subscribers, Val("str", group_id)) = <<>>
    /\ IntRaises(Val("str", group_id))

\* group_subscribers.get(group_id, [])
\*     or group_subscribers.get(int(group_id), []) or []
GroupTarget(group_subscribers, group_id) ==
    IF DictGet(group_subscribers, Val("str", group_id)) # <<>>
    THEN DictGet(group_subscribers, Val("str", group_id))
    ELSE DictGet(group_subscribers, Val("int", Str(ToInt(group_id))))

\* _pushtarget_conflate raises PushTargetMergeError
ConflateRaises(a) ==
    \E g \in StrSet(a.group_pusher_user) :
        GroupRaises(a.group_subscribers, g)

\* the pair _pushtarget_conflate returns
Conflate(a) ==
    [private |-> StrSet(a.private_subscribers)
                     \cap StrSet(a.private_pusher_user),
     group |-> [g \in StrSet(a.group_pusher_user) |->
                   GroupTarget(a.group_subscribers, g)]]

\* user ids and group ids, as text and as numbers
U7 == Val("str", <<"7">>)
U8 == Val("str", <<"8">>)
N7 == Val("int", <<"7">>)
G1 == Val("str", <<"1">>)
G2 == Val("str", <<"2">>)
N1 == Val("int", <<"1">>)
GroupOne == Val("str", <<"g", "r", "o", "u", "p", "1">>)

\* the subscribers of the event and the allow-lists of the source
ConflateArgs ==
    [fn : {"conflate"},
     private_subscribers : {<<>>, <<U7>>, <<U7, U8>>, <<N7>>},
     private_pusher_user : {<<>>, <<U7>>, <<N7>>, <<U8, U7>>},
     group_pusher_user : {<<>>, <<G1>>, <<G1, G2>>, <<GroupOne>>},
     group_subscribers : {<<>>,
                          << <<G1, <<U7>> >> >>,
                          << <<N1, <<U7>> >> >>,
                          << <<G1, <<>> >>, <<N1, <<U8>> >> >>,
                          << <<G1, <<U7>> >>, <<N1, <<U8>> >> >>,
                          << <<GroupOne, <<U7>> >> >>,
                          << <<G2, <<U8>> >> >>}]

InitConflate ==
    /\ PushIdle /\ ImageIdle
    /\ sent = SentUpTo([s \in Sources |-> 0])
    /\ arg \in ConflateArgs
    /\ out = NoOut

\* private_target, group_target = self._pushtarget_conflate(message_params)
ConflateCall ==
    /\ arg.fn = "conflate" /\ ~out.done
    /\ out' = IF ConflateRaises(arg)
              THEN [done |-> TRUE, raised |-> TRUE,
                    private |-> {}, group |-> <<>>]
              ELSE [done |-> TRUE, raised |-> FALSE,
                    private |-> Conflate(arg).private,
                    group |-> Conflate(arg).group]
    /\ UNCHANGED <<arg, pushvars, imgvars>>

SpecConflate == InitConflate /\ [][ConflateCall]_vars

(* ------------- PushManager.execute from the lookup to the commit ------- *)
\* anime_db_data after the lookup: the row that was found, the default
\* schema when the reference id is unknown (the lookup is skipped), when no
\* row is found and when the lookup raises
AnimeDbData(lookup) == IF lookup = "hit" THEN AnimeHit ELSE AnimeDefault

\* an error of the lookup ends the run
AfterLookupFatal(lookup) == IF lookup = "error" THEN "aborted" ELSE "pick"

\* the stage that follows the lookup, whatever it gave
AfterLookup(lookup) == "pick"

\* image_path after ImageSelector.select returned a path, returned None or
\* raised
ImagePath(select) == IF select = "path" THEN CachePath ELSE NULL

\* an error of the image selection ends the run
AfterImageFatal(select) == IF select = "raise" THEN "aborted" ELSE "targets"

\* the stage that follows the image selection, whatever it gave
AfterImage(select) == "targets"

\* one run and what each of its stages will meet
InitStages ==
    /\ PushIdle /\ ImageIdle
    /\ sent = SentUpTo([s \in Sources |-> 0])
    /\ arg \in [fn : {"execute"}, rec : RecKeys,
                lookup : {"skipped", "hit", "miss", "error"},
                pick : {"ok", "raise"},
                select : {"path", "none", "raise"},
                targets : {"ok", "raise"}]
    /\ out = [done |-> FALSE, at |-> "lookup", anime |-> AnimeDefault,
              event |-> NoEv, image |-> NULL]

\* _get_tmdb_id and _select_anime_data_from_db, with the except branch
LookupStage ==
    /\ arg.fn = "execute" /\ out.at = "lookup"
    /\ out' = [out EXCEPT !.anime = AnimeDbData(arg.lookup),
                          !.at = AfterLookup(arg.lookup),
                          !.done = (AfterLookup(arg.lookup) = "aborted")]
    /\ UNCHANGED <<arg, pushvars, imgvars>>

\* DataPicker(...).pick(): an exception ends the run
PickStage ==
    /\ arg.fn = "execute" /\ out.at = "pick"
    /\ out' = IF arg.pick = "raise"
              THEN [out EXCEPT !.at = "aborted", !.done = TRUE]
              ELSE [out EXCEPT !.event = Pick(1, arg.rec, out.anime),
                               !.at = "image"]
    /\ UNCHANGED <<arg, pushvars, imgvars>>

\* ImageSelector(...).select(), with the except branch
ImageStage ==
    /\ arg.fn = "execute" /\ out.at = "image"
    /\ out' = [out EXCEPT !.image = ImagePath(arg.select),
                          !.at = AfterImage(arg.select),
                          !.done = (AfterImage(arg.select) = "aborted")]
    /\ UNCHANGED <<arg, pushvars, imgvars>>

\* _pushtarget_conflate: an exception ends the run, else the commit is next
TargetStage ==
    /\ arg.fn = "execute" /\ out.at = "targets"
    /\ out' = [out EXCEPT !.at = IF arg.targets = "raise" THEN "aborted"
                                 ELSE "commit",
                          !.done = TRUE]
    /\ UNCHANGED <<arg, pushvars, imgvars>>

NextStages == LookupStage \/ PickStage \/ ImageStage \/ TargetStage

SpecStages == InitStages /\ [][NextStages]_vars

(* -------------------------- PushManager._do_push ----------------------- *)
\* the renderings of MessageRenderer, as messages of one segment
RenderMerged == <<[template |-> "merged_template", at |-> <<>>]>>
RenderAll == <<[template |-> "template", at |-> <<>>]>>
RenderBase == <<[template |-> "template_base", at |-> <<>>]>>
RenderAt(subscriber) == <<[template |-> "template_at", at |-> subscriber]>>

\* the group target lists of a run, in the order of the mapping
GroupTargets == {<<>>, <<"g1">>, <<"g1", "g2">>}

\* the subscribers to mention in a group
SubscribersOf(g) == IF g = "g1" THEN <<"u7">> ELSE <<>>

\* the group gets the message rendered for the private targets
FullMessageAsPrivate(message, base_message, at_message) ==
    message \o at_message

\* full_message = base_message + at_message
FullMessage(message, base_message, at_message) == base_message \o at_message

\* one call of _do_push by a run with the given targets; the renderers and
\* the senders return or raise
InitDispatch ==
    /\ PushIdle /\ ImageIdle
    /\ sent = SentUpTo([s \in Sources |-> 0])
    /\ arg \in [fn : {"do_push"}, is_merged : BOOLEAN,
                render : {"ok", "raise"}, base : {"ok", "raise"},
                private_push_target : {<<>>, <<"u7", "u8">>},
                group_push_target : GroupTargets,
                private_raises : BOOLEAN, group_raises : 0 .. 2]
    /\ out = [done |-> FALSE, raised |-> FALSE, at |-> "render",
              message |-> <<>>, base_message |-> <<>>, i |-> 0,
              calls |-> <<>>]

\* the first rendering: render_merged or render_all; a failure ends the call
RenderStep ==
    /\ arg.fn = "do_push" /\ ~out.done /\ out.at = "render"
    /\ out' = IF arg.render = "raise" THEN [out EXCEPT !.done = TRUE]
              ELSE [out EXCEPT !.at = "private",
                               !.message = IF arg.is_merged THEN RenderMerged
                                           ELSE RenderAll]
    /\ UNCHANGED <<arg, pushvars, imgvars>>

\* _push_to_private: one call of private_msg_pusher for all private targets
PrivateStep ==
    /\ arg.fn = "do_push" /\ ~out.done /\ out.at = "private"
    /\ out' = IF arg.private_push_target = <<>>
              THEN [out EXCEPT !.at = "group"]
              ELSE IF arg.private_raises
              THEN [out EXCEPT !.done = TRUE, !.raised = TRUE]
              ELSE [out EXCEPT !.at = "group",
                               !.calls = Append(@,
                                   [kind |-> "private",
                                    to |-> arg.private_push_target,
                                    message |-> out.message])]
    /\ UNCHANGED <<arg, pushvars, imgvars>>

\* _push_to_group up to the loop: render_base, a failure ends the call
GroupStart ==
    /\ arg.fn = "do_push" /\ ~out.done /\ out.at = "group"
    /\ out' = IF arg.group_push_target = <<>> \/ arg.base = "raise"
              THEN [out EXCEPT !.done = TRUE]
              ELSE [out EXCEPT !.at = "loop", !.i = 1,
                               !.base_message = RenderBase]
    /\ UNCHANGED <<arg, pushvars, imgvars>>

\* one turn of the loop: render_at, then group_msg_pusher for one group; a
\* failure ends the loop
GroupPush ==
    /\ arg.fn = "do_push" /\ ~out.done /\ out.at = "loop"
    /\ LET g == arg.group_push_target[out.i]
           last == out.i = Len(arg.group_push_target)
       IN  out' = IF arg.group_raises = out.i
                  THEN [out EXCEPT !.done = TRUE]
                  ELSE [out EXCEPT
                          !.done = last,
                          !.i = @ + 1,
                          !.calls = Append(@,
                              [kind |-> "group", to |-> <<g>>,
                               message |->
                                   FullMessage(out.message, out.base_message,
                                               RenderAt(SubscribersOf(g)))])]
    /\ UNCHANGED <<arg, pushvars, imgvars>>

NextDispatch == RenderStep \/ PrivateStep \/ GroupStart \/ GroupPush

SpecDispatch == InitDispatch /\ [][NextDispatch]_vars

(* ------------------------------- claims -------------------------------- *)
\* run r has passed its record on: to _do_push or to add_episode
HandedOff(r) == pc[r] \in {"buffered", "pushing", "done"}

\* run r is past a successful write of the sent flag
Committed(r) == pc[r] \in {"notitle", "lockwait", "buffered", "pushing", "done"}

\* every record of source s has its flag set
NoUnsentRecord(s) == \A i \in 1 .. MaxId : sent[<<s, i>>] = 1

\* C1: no record is passed to dispatch or to the Merge Buffer by two runs
\* (stated as claimed; the code lets two runs that both fetched the record
\* before either wrote its flag hand it off twice)
C1_AtMostOnceHandOff ==
    \A r1 \in Runs, r2 \in Runs :
        (r1 # r2 /\ HandedOff(r1) /\ HandedOff(r2)) => rec[r1] # rec[r2]

\* C2: at every dispatch or buffer hand-off the record's sent flag is
\* already 1: for the run that handed off, for every buffered event and for
\* every call of _do_push
C2_FlagWrittenBeforeHandOff ==
    /\ \A r \in Runs : (HandedOff(r) \/ pc[r] = "lockwait")
                          => sent[rec[r]] = 1
    /\ \A k \in DOMAIN buffer : \A i \in 1 .. Len(buffer[k]) :
          sent[buffer[k][i].id] = 1
    /\ \A r \in Runs : \A i \in 1 .. Len(log[r]) : sent[log[r][i].ev.id] = 1

\* an immediate dispatch was sent and an event waits in the Merge Buffer
C2_Witness ==
    /\ \E r \in Runs : /\ log[r] # <<>>
                       /\ ~log[r][1].merged /\ log[r][1].res = "sent"
    /\ \E k \in DOMAIN buffer : buffer[k] # <<>>

\* C3: a run that aborts at a fatal stage up to the commit has dispatched
\* nothing and handed nothing to the buffer, its aborting step changes no
\* flag, and unless another run committed the record its flag is 0 and it
\* is still selectable
C3_Step ==
    \A r \in Runs :
        pc'[r] = "aborted" =>
            /\ log'[r] = <<>> /\ tstate'[r] = "none"
            /\ \A k \in DOMAIN buffer' : \A i \in 1 .. Len(buffer'[k]) :
                  buffer'[k][i].run # r
            /\ \A k \in DOMAIN waiters' : \A i \in 1 .. Len(waiters'[k]) :
                  waiters'[k][i] # r
            /\ pc[r] # "aborted" =>
                  (sent' = sent /\ log' = log /\ buffer' = buffer
                   /\ tasks' = tasks /\ tstate' = tstate)
            /\ (/\ rec'[r] # NoRec
                /\ ~\E r2 \in Runs \ {r} :
                      rec'[r2] = rec'[r] /\ Committed(r2)')
                  => (sent'[rec'[r]] = 0
                      /\ \E i \in 1 .. MaxId : sent'[<<src'[r], i>>] = 0)

\* C3, over every step: a fatal abort dispatches nothing and leaves the
\* record unsent and selectable
C3_FatalAbortLeavesUnsent == [][C3_Step]_vars

\* a run aborted after its fetch, its record is unsent and a later run has
\* selected the same record
C3_Witness ==
    \E r \in Runs, r2 \in Runs :
        /\ r < r2 /\ pc[r] = "aborted" /\ rec[r] # NoRec
        /\ sent[rec[r]] = 0
        /\ rec[r2] = rec[r] /\ pc[r2] \in {"enrich", "image", "commit"}

\* C4: a written flag stays 1 whatever rendering and sending do, no fetch
\* selects a record whose flag is 1, and a run calls its dispatch at most
\* once
C4_Step ==
    /\ \A k \in RecKeys : sent[k] = 1 => sent'[k] = 1
    /\ \A r \in Runs : rec'[r] # rec[r] => sent[rec'[r]] = 0
    /\ \A r \in Runs : Len(log'[r]) <= 1

\* C4, over every step: a written flag is never cleared and a flagged
\* record is never selected or delivered again
C4_FailedDeliveryNotRetried == [][C4_Step]_vars

\* a delivery failed after the commit, the flag is 1, and a later run of
\* the same source found nothing to select
C4_Witness ==
    \E r \in Runs, r2 \in Runs :
        /\ r < r2 /\ log[r] # <<>>
        /\ log[r][1].res \in {"render_fail", "raised"}
        /\ sent[log[r][1].ev.id] = 1
        /\ src[r2] = log[r][1].ev.id[1] /\ pc[r2] = "noop"

\* C5: a run started while its source has no unsent record ends without
\* writing a flag, touching the Merge Buffer or dispatching
C5_Step ==
    \A r \in Runs :
        (pc[r] = "init" /\ pc'[r] # "init" /\ NoUnsentRecord(src'[r])) =>
            /\ pc'[r] \in {"noop", "aborted"}
            /\ rec'[r] = NoRec
            /\ UNCHANGED <<sent, rec, ev, bufvars, log>>

\* C5, over every step: a run that finds nothing unsent changes nothing
C5_NothingPendingIsNoOp == [][C5_Step]_vars

\* a run found nothing to select after an earlier run of its source
\* committed a record
C5_Witness ==
    \E r \in Runs, r2 \in Runs :
        /\ r < r2 /\ Committed(r) /\ src[r2] = src[r]
        /\ pc[r2] = "noop" /\ NoUnsentRecord(src[r2])

\* the runs whose events a list of events holds
RunsIn(evs) == {evs[i].run : i \in 1 .. Len(evs)}

\* the pending list of key k, empty when there is no bucket
Pending(k) == IF k \in DOMAIN buffer THEN buffer[k] ELSE <<>>

\* task t calls its callback in this step
Flushes(t) == Len(log'[t]) > Len(log[t]) /\ log'[t][Len(log'[t])].merged

\* run r's event is appended to its bucket in this step
Arrives(r) == pc[r] \in {"commit", "lockwait"} /\ pc'[r] = "buffered"

\* C6: every arrival appends to the pending list, kills the key's earlier
\* timer and starts a new 60s timer; a flush fires only 60s or more after the
\* last arrival of its key, once per timer, built from the whole pending
\* list; every buffered event is pending or in exactly one finished flush
C6_Step ==
    /\ \A r \in Runs : Arrives(r) =>
          LET k == tkey'[r]
          IN  /\ buffer'[k] = Pending(k) \o <<ev[r]>>
              /\ since'[k] = 0
              /\ tstate'[r] = "sleep" /\ elapsed'[r] = 0
              /\ \A t \in Runs \ {r} :
                    tkey[t] = k => tstate'[t] \in {"done", "cancelled"}
    /\ \A t \in Runs : Flushes(t) =>
          /\ since[tkey[t]] >= Delay
          /\ flushed'[t] = buffer[tkey[t]]
          /\ Len(log'[t]) = 1

C6_State ==
    \A r \in Runs : pc[r] = "buffered" =>
        /\ (r \in RunsIn(Pending(tkey[r])))
              # (\E t \in Runs : tstate[t] = "done" /\ r \in RunsIn(flushed[t]))
        /\ Cardinality({t \in Runs : r \in RunsIn(flushed[t])}) <= 1
        /\ Cardinality({i \in 1 .. Len(Pending(tkey[r])) :
                           Pending(tkey[r])[i].run = r}) <= 1

\* C6, over every state and step: arrivals closer than 60s end in one
\* flush of all of them, 60s or more after the last arrival
C6_Debounce == [](C6_State) /\ [][C6_Step]_vars

\* two arrivals of one key were flushed together by the second timer, the
\* first timer having been cancelled
C6_Witness ==
    \E t \in Runs, t2 \in Runs :
        /\ tstate[t] = "done" /\ Len(flushed[t]) = 2 /\ log[t] # <<>>
        /\ tstate[t2] = "cancelled" /\ tkey[t2] = tkey[t] /\ log[t2] = <<>>

\* two events belong to the same (title, season) bucket
SameBucket(e1, e2) ==
    /\ e1.title = e2.title
    /\ ExtractSeasonNumber(e1.season) = ExtractSeasonNumber(e2.season)

\* what the buffer holds for key k: pending list, lock, waiters, timers
KeyView(k) ==
    <<Pending(k), k \in DOMAIN buffer,
      IF k \in DOMAIN locks THEN <<locks[k], waiters[k]>> ELSE <<>>,
      IF k \in DOMAIN tasks THEN tasks[k] ELSE NoRun,
      IF k \in DOMAIN since THEN since[k] ELSE 0,
      {<<t, tstate[t], elapsed[t], flushed[t]>> : t \in {u \in Runs : tkey[u] = k}}>>

\* only the clock moves
TimeStep == /\ pc' = pc /\ buffer' = buffer /\ tstate' = tstate
            /\ tasks' = tasks /\ locks' = locks /\ log' = log

\* C7: events of different (title, season) keys are never in one pending
\* list nor in one flush, and a step that is not the mere passing of time
\* changes the pending list, lock and timers of at most one key
C7_State ==
    /\ \A k \in DOMAIN buffer : \A i, j \in 1 .. Len(buffer[k]) :
          SameBucket(buffer[k][i], buffer[k][j])
    /\ \A t \in Runs : \A i, j \in 1 .. Len(flushed[t]) :
          SameBucket(flushed[t][i], flushed[t][j])

C7_Step ==
    \/ TimeStep
    \/ Cardinality({k \in DOMAIN locks \cup DOMAIN locks' :
                       KeyView(k)' # KeyView(k)}) <= 1

\* C7, over every state and step: keys are never merged and never
\* affect each other
C7_KeysIsolated == [](C7_State) /\ [][C7_Step]_vars

\* a flush of one key failed while another key stays pending with its
\* timer running
C7_Witness ==
    \E t \in Runs, k \in DOMAIN buffer :
        /\ tstate[t] = "done" /\ log[t] # <<>> /\ log[t][1].res = "raised"
        /\ k # tkey[t] /\ buffer[k] # <<>>
        /\ tstate[tasks[k]] = "sleep" /\ elapsed[tasks[k]] > 0

\* C8: the expiry of a timer over a non-empty pending list calls the
\* callback once, with the merged event and merged = true; when the flush
\* ends the bucket is removed and its lock is free
C8_Step ==
    \A t \in Runs :
        /\ (tstate[t] = "sleep" /\ tstate'[t] \in {"flush", "done"}
                /\ Pending(tkey[t]) # <<>>) =>
              /\ Len(log'[t]) = 1 /\ log[t] = <<>>
              /\ log'[t][1].merged
              /\ log'[t][1].ev = MergeEpisodes(buffer[tkey[t]],
                                               buffer[tkey[t]][1].title)
        /\ (tstate[t] \in {"sleep", "flush"} /\ tstate'[t] = "done") =>
              /\ tkey[t] \notin DOMAIN buffer'
              /\ locks'[tkey[t]] = NoRun
              /\ Len(log'[t]) = Len(log[t]) \/ tstate[t] = "sleep"

\* C8, over every step: one merged callback per expiry, then the bucket
\* is removed
C8_FlushOnceThenClear == [][C8_Step]_vars

\* a flush was sent and its bucket is gone
C8_Witness ==
    \E t \in Runs :
        /\ tstate[t] = "done" /\ log[t] # <<>> /\ log[t][1].merged
        /\ log[t][1].res = "sent" /\ tkey[t] \notin DOMAIN buffer

\* a merged call of task t ended in a failure
FlushFailed(t) ==
    /\ log[t] # <<>> /\ log[t][1].merged
    /\ log[t][1].res \in {"raised", "render_fail"}

\* C9: when the callback raises (or its rendering fails) the bucket is
\* removed, no timer is left sleeping for the key, the callback is not
\* called again, and the dropped events are in no pending list and in no
\* other flush
C9_Step ==
    \A t \in Runs :
        (~FlushFailed(t) /\ FlushFailed(t)') =>
            /\ tkey[t] \notin DOMAIN buffer'
            /\ tstate'[t] = "done"
            /\ \A u \in Runs : tkey[u] = tkey[t] => tstate'[u] # "sleep"

C9_State ==
    \A t \in Runs : FlushFailed(t) =>
        /\ Len(log[t]) = 1
        /\ \A k \in DOMAIN buffer : RunsIn(buffer[k]) \cap RunsIn(flushed[t]) = {}
        /\ \A u \in Runs \ {t} : RunsIn(flushed[u]) \cap RunsIn(flushed[t]) = {}

\* C9, over every state and step: a failed flush is dropped, never
\* retried
C9_FailedFlushDropped == [](C9_State) /\ [][C9_Step]_vars

\* a callback raised, the bucket is gone, and a later event of the same key
\* is pending in a fresh bucket
C9_Witness ==
    \E t \in Runs :
        /\ tstate[t] = "done" /\ log[t] # <<>> /\ log[t][1].merged
        /\ log[t][1].res = "raised"
        /\ tkey[t] \in DOMAIN buffer /\ buffer[tkey[t]] # <<>>

\* the label of e is the season/episode label of its raw record
EpisodeLabelled(e) ==
    /\ Row(e.id).season # NONE /\ Row(e.id).episode # NONE
    /\ e.episode = EpisodeLabel(Row(e.id).season, Row(e.id).episode)

\* C10: when the second of two events of one title and season, with
\* normalizer labels of two different episodes, arrives 10s after the
\* first, the Merged Event of the bucket has episode_count 2, both episode
\* numbers in episode_list and the image of the first event (stated as
\* claimed; the code takes the first number of the label, the season)
C10_Step ==
    \A r \in Runs :
        (/\ Arrives(r)
         /\ Len(Pending(tkey'[r])) = 1
         /\ since[tkey'[r]] = 10
         /\ EpisodeLabelled(Pending(tkey'[r])[1]) /\ EpisodeLabelled(ev[r])
         /\ Row(Pending(tkey'[r])[1].id).episode # Row(ev[r].id).episode) =>
            LET first == Pending(tkey'[r])[1]
                m == MergeEpisodes(buffer'[tkey'[r]], first.title)
            IN  /\ m.episode_count = 2
                /\ m.episode_list = SortedSeq({Row(first.id).episode,
                                               Row(ev[r].id).episode})
                /\ m.image = first.image

\* C10, over every step: two episodes arriving 10s apart merge to
\* episode_count 2
C10_TwoEpisodesMergeToTwo == [][C10_Step]_vars

\* the cache file is there and its modification age is within 14 days
FreshFile == env.path /\ cache # NoFile /\ ~cache.staterr /\ cache.age <= ExpireHours

\* the cache file is there and is older, or its age cannot be read
StaleFile == env.path /\ cache # NoFile /\ (cache.staterr \/ cache.age > ExpireHours)

\* select() call i returns in this step
Returns(i) == ipc[i] # "done" /\ ipc'[i] = "done"

\* C11: a select() call that starts while the cache file exists and is
\* fresh returns in that same step with the cache path, having started no
\* fetch and written neither the cache file nor a temp file
C11_Step ==
    \A i \in Selectors :
        (ipc[i] = "idle" /\ ipc'[i] # "idle" /\ FreshFile) =>
            /\ ipc'[i] = "done"
            /\ result'[i] = CachePath
            /\ fetch'[i] = <<>>
            /\ cache' = cache /\ tmp' = tmp

\* C11, over every step: a fresh cache file is returned with no fetch and
\* no write
C11_FreshCacheNoNetwork == [][C11_Step]_vars

\* a call with candidates to fetch returned the fresh cache file
C11_Witness ==
    \E i \in Selectors :
        /\ ipc[i] = "done" /\ result[i] = CachePath /\ fetch[i] = <<>>
        /\ env.urls > 0 /\ FreshFile /\ cache.content = <<"old", 0>>

\* C12: a select() call that found an expired cache file and has nothing to
\* fetch, or whose fetches all raised, returns the cache path and leaves
\* the file as it is
C12_Step ==
    \A i \in Selectors :
        /\ (ipc[i] = "idle" /\ ipc'[i] # "idle" /\ StaleFile /\ env.urls = 0) =>
              /\ ipc'[i] = "done" /\ result'[i] = CachePath
              /\ cache' = cache /\ tmp' = tmp
        /\ (/\ ipc[i] = "download" /\ Returns(i)
            /\ output_img[i] # NULL /\ is_image_expired[i]
            /\ \A u \in DOMAIN fetch[i] : fetch[i][u] = "fail") =>
              /\ result'[i] = CachePath
              /\ cache' = cache /\ tmp' = tmp

\* C12, over every step: with an expired cache file and no download the
\* stale path is returned and the file is not modified
C12_StaleFallback == [][C12_Step]_vars

\* every fetch of a call that found an expired file raised, and the call
\* returned the stale file, untouched, although a default image exists
C12_Witness ==
    \E i \in Selectors :
        /\ ipc[i] = "done" /\ result[i] = CachePath /\ is_image_expired[i]
        /\ fetch[i] # <<>> /\ \A u \in DOMAIN fetch[i] : fetch[i][u] = "fail"
        /\ cache # NoFile /\ cache.content = <<"old", 0>> /\ env.default

\* C13 as claimed: select() returns null exactly when no cache file was
\* found, no candidate could be downloaded and there is no default image,
\* and a path in every other case
C13_NullOnlyWhenNothingDownloaded ==
    \A i \in Selectors : ipc[i] = "done" =>
        (result[i] = NULL <=>
            /\ output_img[i] = NULL
            /\ \A u \in DOMAIN fetch[i] : fetch[i][u] # "ok"
            /\ ~env.default)

\* C13 amended: select() returns null exactly when no cache file was found
\* or saved and there is no default image; otherwise it returns the cache
\* path when a cache file was found or saved (and that file exists), and the
\* default image only when none was
C13_NullOnlyWhenNothingSaved ==
    \A i \in Selectors : ipc[i] = "done" =>
        /\ result[i] = NULL <=> (output_img[i] = NULL /\ ~env.default)
        /\ result[i] \in {NULL, CachePath, DefaultPath}
        /\ result[i] = CachePath <=> output_img[i] # NULL
        /\ result[i] = CachePath => cache # NoFile
        /\ result[i] = DefaultPath => env.default

\* a candidate was downloaded, the save failed, and select() returned null
C13_Witness ==
    \E i \in Selectors :
        /\ ipc[i] = "done" /\ result[i] = NULL
        /\ \E u \in DOMAIN fetch[i] : fetch[i][u] = "ok"
        /\ env.path /\ ~env.default

\* the id given to pick is not a number
MalformedId(row) == row.id.t = "str" /\ row.id.v # <<>> /\ ~AllDigits(row.id.v)

\* the timestamp given to pick is not an ISO date
MalformedTimestamp(row) == row.timestamp # NoStr /\ ~FromIsoFormatOk(row.timestamp)

\* C14: pick returns an event for every source, raw record and enrichment
\* record, and a malformed id or timestamp is null in that event (stated as
\* claimed; int() and fromisoformat raise out of pick)
C14_PickNeverRaises ==
    (arg.fn = "pick" /\ out.done) =>
        /\ ~out.raised
        /\ MalformedId(arg.raw) => out.event.id = NONE
        /\ MalformedTimestamp(arg.raw) => out.event.timestamp = NoStr

\* C15: the event pick returns for a library-origin record of type Movie
\* has no episode label and no season, whatever the record's season and
\* episode
C15_MovieHasNoEpisodeNoSeason ==
    (/\ arg.fn = "pick" /\ out.done /\ ~out.raised
     /\ arg.source = "EMBY" /\ arg.raw.type = "Movie") =>
        /\ out.event.episode = NoStr
        /\ out.event.season = NoStr

\* a Movie record that carries a season and an episode was normalized
C15_Witness ==
    /\ arg.fn = "pick" /\ out.done /\ ~out.raised
    /\ arg.source = "EMBY" /\ arg.raw.type = "Movie"
    /\ arg.raw.season = 1 /\ arg.raw.episode = 2
    /\ out.event.media_type = "Movie"

\* what decoding a subscriber field must give: the value when it has the
\* expected shape, natively or as JSON text, else the empty default
Decoded(val, form, shape) ==
    IF form \in {"native", "json"} /\ val.t = shape THEN val
    ELSE Val(shape, <<>>)

\* C16: decoding a subscriber field never raises; it gives the value when
\* the value, native or JSON text, is a mapping (group_subscriber) or a list
\* (private_subscriber), and the empty mapping or the empty list for a
\* wrong shape, for malformed JSON text and for null
C16_SubscriberDecoding ==
    (arg.fn = "subscriber" /\ out.done) =>
        /\ ~out.raised
        /\ out.group.t = "dict" /\ out.private.t = "list"
        /\ out.group = Decoded(arg.gval, arg.gform, "dict")
        /\ out.private = Decoded(arg.pval, arg.pform, "list")

\* a mapping stored as JSON text was decoded, next to a list stored as
\* malformed JSON text
C16_Witness ==
    /\ arg.fn = "subscriber" /\ out.done
    /\ arg.gform = "json" /\ arg.gval.t = "dict" /\ arg.gval.v # <<>>
    /\ out.group = arg.gval
    /\ arg.pform = "malformed" /\ arg.pval.t = "list" /\ arg.pval.v # <<>>
    /\ out.private = Val("list", <<>>)

\* the maximal contiguous runs of a set of numbers, as pairs <<first, last>>
RunsOf(S) ==
    {r \in S \X S : /\ r[1] <= r[2]
                    /\ \A n \in r[1] .. r[2] : n \in S
                    /\ (r[1] - 1) \notin S /\ (r[2] + 1) \notin S}

\* Enn with two digits
Enn(n) == <<"E", DigitChars[(n \div 10) + 1], DigitChars[(n % 10) + 1]>>

RECURSIVE RunsText(_)
\* the runs in ascending order, joined by commas
RunsText(R) ==
    IF R = {} THEN <<>>
    ELSE LET r == CHOOSE x \in R : \A y \in R : x[1] <= y[1]
             one == IF r[1] = r[2] THEN Enn(r[1])
                    ELSE Enn(r[1]) \o <<"-">> \o Enn(r[2])
         IN  one \o (IF R = {r} THEN <<>> ELSE <<",">>) \o RunsText(R \ {r})

\* the last index of the digits that start at index i
DigitsEnd(s, i) ==
    CHOOSE e \in (i - 1) .. Len(s) :
        /\ \A j \in i .. e : IsDigit(s[j])
        /\ (e = Len(s) \/ ~IsDigit(s[e + 1]))

RECURSIVE Expand(_, _)
\* the numbers a range text stands for, read from index i on
Expand(s, i) ==
    IF i > Len(s) \/ s[i] # "E" THEN <<>>
    ELSE LET j == DigitsEnd(s, i + 1)
             a == ToInt(SubSeq(s, i + 1, j))
             span == j + 2 <= Len(s) /\ s[j + 1] = "-"
             k == IF span THEN DigitsEnd(s, j + 3) ELSE j
             b == IF span THEN ToInt(SubSeq(s, j + 3, k)) ELSE a
         IN  [n \in 1 .. (b - a + 1) |-> a + n - 1] \o Expand(s, k + 2)

\* C17: for a sorted list of distinct episode numbers formatRange gives the
\* comma-joined ascending maximal contiguous runs, Eaa-Ebb for a run of two
\* or more and Enn for a single number, the marker of the unknown for the
\* empty list, and expanding the text gives back the list
C17_FormatRange ==
    (arg.fn = "format" /\ out.done) =>
        LET nums == arg.episode_numbers
            S == {nums[i] : i \in 1 .. Len(nums)}
        IN  /\ ~out.raised
            /\ out.text = (IF nums = <<>> THEN <<"weizhi">>
                           ELSE RunsText(RunsOf(S)))
            /\ Len(nums) = 1 => out.text = Enn(nums[1])
            /\ Expand(out.text, 1) = nums

\* the mixed list 1,3,5,6,7,10 was formatted as E01,E03,E05-E07,E10
C17_Witness ==
    /\ arg.fn = "format" /\ out.done
    /\ arg.episode_numbers = <<1, 3, 5, 6, 7, 10>>
    /\ out.text = <<"E", "0", "1", ",", "E", "0", "3", ",",
                    "E", "0", "5", "-", "E", "0", "7", ",", "E", "1", "0">>

\* a classification that is episode or series, in any case of the letters
IsEpisodic(media_type) ==
    media_type \in {"episode", "Episode", "EPISODE",
                    "series", "Series", "SERIES"}

\* run r gets past the write of the sent flag and the title check
Routed(r) == pc[r] = "commit" /\ pc'[r] \notin {"commit", "aborted", "notitle"}

C18_Step ==
    \A r \in Runs : Routed(r) =>
        IF IsEpisodic(ev[r].media_type)
        THEN /\ pc'[r] \in {"lockwait", "buffered"}
             /\ log' = log
             /\ pc'[r] = "lockwait" =>
                   waiters'[KeyOf(r)] = Append(waiters[KeyOf(r)], r)
             /\ pc'[r] = "buffered" =>
                   buffer'[tkey'[r]][Len(buffer'[tkey'[r]])] = ev[r]
        ELSE /\ pc'[r] \in {"pushing", "done"}
             /\ buffer' = buffer /\ waiters' = waiters /\ tasks' = tasks
             /\ Len(log'[r]) = Len(log[r]) + 1
             /\ ~log'[r][Len(log'[r])].merged
             /\ log'[r][Len(log'[r])].ev = ev[r]

C18_State ==
    /\ \A k \in DOMAIN buffer : \A i \in 1 .. Len(buffer[k]) :
          IsEpisodic(buffer[k][i].media_type)
    /\ \A t \in Runs : \A i \in 1 .. Len(flushed[t]) :
          IsEpisodic(flushed[t][i].media_type)
    /\ \A r \in Runs : \A i \in 1 .. Len(log[r]) :
          ~log[r][i].merged => ~IsEpisodic(log[r][i].ev.media_type)
    /\ \A r \in Runs : pc[r] = "lockwait" => IsEpisodic(ev[r].media_type)

\* C18: after a successful commit with a non-empty title the classification
\* alone, compared without regard to case, decides: episode or series goes
\* to the Merge Buffer and is not dispatched by the run; movie, any other
\* classification and null are dispatched at once and never buffered
C18_RoutingByClassification == [](C18_State) /\ [][C18_Step]_vars

\* a record classified MOVIE was dispatched at once while an episode waits
\* in the Merge Buffer
C18_Witness ==
    /\ log[1] # <<>> /\ ~log[1][1].merged
    /\ log[1][1].ev.media_type = "MOVIE"
    /\ \E k \in DOMAIN buffer :
          buffer[k] # <<>> /\ buffer[k][1].media_type = "Episode"

\* the list found in a mapping under a key of the given kind and text
ListUnder(d, kind, text) ==
    IF \E i \in 1 .. Len(d) : d[i][1].t = kind /\ d[i][1].v = text
    THEN d[CHOOSE i \in 1 .. Len(d) : d[i][1].t = kind /\ d[i][1].v = text][2]
    ELSE <<>>

\* C19: the private targets are the user ids that are both in the event's
\* private-subscriber list and in the private allow-list of the source; the
\* group targets have one entry per allowed group id, with the event's
\* subscriber list for the group under the string key, or else under the
\* numeric key, and the empty list when neither key has subscribers
\* (stated as claimed; for an allowed group id that is not a number and has
\* no subscribers the code raises instead of giving the empty list)
C19_TargetsConflated ==
    (arg.fn = "conflate" /\ out.done) =>
        LET allowed == {arg.group_pusher_user[i].v :
                            i \in 1 .. Len(arg.group_pusher_user)}
            subs == arg.group_subscribers
        IN  /\ ~out.raised
            /\ out.private =
                  {u \in {arg.private_subscribers[i].v :
                              i \in 1 .. Len(arg.private_subscribers)} :
                      \E i \in 1 .. Len(arg.private_pusher_user) :
                          arg.private_pusher_user[i].v = u}
            /\ DOMAIN out.group = allowed
            /\ \A g \in allowed :
                  out.group[g] =
                      IF ListUnder(subs, "str", g) # <<>>
                      THEN ListUnder(subs, "str", g)
                      ELSE ListUnder(subs, "int", g)

\* run r is inside add_episode, suspended at the bucket lock, while a flush
\* of its key holds the lock and awaits the delivery callback
WaitsForFlush(r) ==
    /\ pc[r] = "lockwait"
    /\ \E t \in Runs : tstate[t] = "flush" /\ tkey[t] = KeyOf(r)

\* C20: addEvent only appends the event and (re)schedules the timer, then
\* returns: no run is ever held inside addEvent until a flush or a delivery
\* has completed
\* (stated as claimed; the code takes the bucket lock, which a flush holds
\* while it awaits the delivery callback)
C20_AddNeverWaitsForFlush == \A r \in Runs : ~WaitsForFlush(r)

\* a fetch takes the greatest unsent id; only a commit changes a flag
C21_Step ==
    /\ \A r \in Runs : (pc[r] = "init" /\ rec'[r] # NoRec) =>
          /\ rec'[r][1] = src'[r]
          /\ sent[rec'[r]] = 0
          /\ \A i \in 1 .. MaxId :
                i > rec'[r][2] => sent[<<src'[r], i>>] = 1
    /\ \A r \in Runs : (pc[r] # "init" /\ pc[r] # "commit") => rec'[r] = rec[r]
    /\ sent' # sent =>
          \E r \in Runs :
              /\ pc[r] = "commit" /\ pc'[r] # "commit"
              /\ rec'[r] = rec[r]
              /\ \A k \in RecKeys :
                    sent'[k] = IF k = rec[r] THEN 1 ELSE sent[k]

\* C21: the record a run processes is the unsent record of its source with
\* the greatest id at fetch time, and a run writes the sent flag of that
\* record only: every change of the flags is one run's commit setting the
\* flag of its own record, all other flags of every source unchanged
C21_GreatestUnsentOnlyItsFlag == [][C21_Step]_vars

\* a run took the greatest unsent id of the feed and committed it while the
\* older record of the feed and the records of the library are still unsent
C21_Witness ==
    \E r \in Runs :
        /\ Committed(r) /\ rec[r] = <<"ANIRSS", MaxId>>
        /\ sent[<<"ANIRSS", MaxId>>] = 1
        /\ sent[<<"ANIRSS", 1>>] = 0
        /\ \A i \in 1 .. MaxId : sent[<<"EMBY", i>>] = 0

\* timer t of key k is live: sleeping, or flushing under the bucket lock
LiveTimer(t, k) == tkey[t] = k /\ tstate[t] \in {"sleep", "flush"}

\* C22: in every state a bucket whose pending list is non-empty has a live
\* timer, sleeping or flushing under the bucket lock (the append and the
\* re-arming of add_episode are one step): no pending events are left with
\* no timer that will flush them
C22_PendingHasLiveTimer ==
    \A k \in DOMAIN buffer :
        buffer[k] # <<>> =>
            /\ k \in DOMAIN tasks /\ tasks[k] # NoRun
            /\ LiveTimer(tasks[k], k)
            /\ tstate[tasks[k]] = "flush" => locks[k] = tasks[k]

\* two events are pending under one key whose first timer was cancelled and
\* whose second timer sleeps
C22_Witness ==
    \E k \in DOMAIN buffer :
        /\ Len(buffer[k]) >= 2
        /\ tstate[tasks[k]] = "sleep"
        /\ \E t \in Runs : tkey[t] = k /\ tstate[t] = "cancelled"

\* C23: each bucket key has at most one live debounce timer, the one add_episode
\* started last, every earlier timer of the key being finished or cancelled;
\* a cancelled timer has flushed nothing and called nothing, and the event
\* that started it is still pending or was flushed by another timer
C23_OneLiveTimerPerKey ==
    /\ \A t \in Runs, u \in Runs :
          (t # u /\ tkey[t] # NoKey /\ tkey[t] = tkey[u]) =>
              ~(LiveTimer(t, tkey[t]) /\ LiveTimer(u, tkey[u]))
    /\ \A t \in Runs : (tkey[t] # NoKey /\ LiveTimer(t, tkey[t])) =>
          tasks[tkey[t]] = t
    /\ \A t \in Runs : tstate[t] = "cancelled" =>
          /\ flushed[t] = <<>> /\ log[t] = <<>>
          /\ \/ t \in RunsIn(Pending(tkey[t]))
             \/ \E u \in Runs \ {t} : t \in RunsIn(flushed[u])

\* a timer was cancelled by a later arrival of its key, and the later timer
\* has flushed both events
C23_Witness ==
    \E t \in Runs, u \in Runs :
        /\ tstate[t] = "cancelled" /\ tkey[u] = tkey[t]
        /\ tstate[u] = "done" /\ Len(flushed[u]) >= 2

\* C24: a miss or an error of the enrichment lookup and an error of the
\* image selection never end the run: it goes on with the default empty
\* enrichment, respectively with a null image, and reaches the commit
\* unless the normalisation or the recipient computation fails
C24_SoftFailuresContinue ==
    arg.fn = "execute" =>
        /\ out.at = "aborted" => (arg.pick = "raise" \/ arg.targets = "raise")
        /\ (out.done /\ arg.pick = "ok" /\ arg.targets = "ok") =>
              out.at = "commit"
        /\ (out.at # "lookup" /\ arg.lookup \in {"miss", "error"}) =>
              out.anime = AnimeDefault
        /\ (out.at \in {"image", "targets", "commit"}
               /\ arg.lookup \in {"miss", "error"}) =>
              out.event = Pick(1, arg.rec, AnimeDefault)
        /\ (out.at \in {"targets", "commit"} /\ arg.select = "raise") =>
              out.image = NULL

\* the lookup raised, the image selection raised, and the run stands at the
\* commit with the event of the default enrichment and no image
C24_Witness ==
    /\ arg.fn = "execute" /\ out.done /\ out.at = "commit"
    /\ arg.lookup = "error" /\ arg.select = "raise"
    /\ out.anime = AnimeDefault /\ out.image = NULL
    /\ out.event # NoEv

\* run r has ended at the title check
NoTitle(r) == pc[r] = "notitle"

C25_State ==
    \A r \in Runs : NoTitle(r) =>
        /\ sent[rec[r]] = 1
        /\ log[r] = <<>> /\ tstate[r] = "none" /\ tkey[r] = NoKey
        /\ \A k \in DOMAIN buffer : r \notin RunsIn(buffer[k])
        /\ \A t \in Runs : r \notin RunsIn(flushed[t])
        /\ \A k \in DOMAIN waiters : \A i \in 1 .. Len(waiters[k]) :
              waiters[k][i] # r

C25_Step ==
    /\ \A r \in Runs : (~NoTitle(r) /\ NoTitle(r)') =>
          /\ pc[r] = "commit" /\ ~Truthy(ev[r].title)
          /\ sent[rec[r]] = 0 => sent' # sent
          /\ sent'[rec[r]] = 1
          /\ UNCHANGED <<bufvars, log>>
    /\ \A r \in Runs : NoTitle(r) =>
          /\ NoTitle(r)'
          /\ \A r2 \in Runs : rec'[r2] # rec[r2] => rec'[r2] # rec[r]

\* C25: when the event has no title the title check comes after the commit:
\* the run ends with the flag of its record at 1, having dispatched nothing
\* and added nothing to the Merge Buffer, and no later run selects the
\* record
C25_NoTitleAfterCommit == [](C25_State) /\ [][C25_Step]_vars

\* a run ended at the title check, and a later run of the same source found
\* nothing left to select
C25_Witness ==
    \E r \in Runs, r2 \in Runs :
        /\ r < r2 /\ NoTitle(r) /\ sent[rec[r]] = 1
        /\ src[r2] = src[r] /\ pc[r2] = "noop"

\* the merged events that were handed to the callback, each with the list
\* of events it was built from
Merges ==
    {<<log[t][1].ev, flushed[t]>> :
        t \in {u \in Runs : /\ flushed[u] # <<>>
                             /\ log[u] # <<>> /\ log[u][1].merged}}

\* the last of a list of events
LastOf(evs) == evs[Len(evs)]

SeasonOf(e) == IF e.season = NoStr THEN <<"1">> ELSE e.season

\* the first season other than the default "1" in a list of events, "1"
\* when there is none
FirstNonDefaultSeason(evs) ==
    LET nd == {i \in 1 .. Len(evs) : SeasonOf(evs[i]) # <<"1">>}
    IN  IF nd = {} THEN <<"1">>
        ELSE SeasonOf(evs[CHOOSE i \in nd : \A j \in nd : i <= j])

\* C27: the season of a Merged Event is the first non-default season among
\* the bucket's buffered events in arrival order, "1" when no buffered event
\* carries one, and it is the season part of the bucket key
C27_MergedSeason ==
    \A t \in Runs :
        (flushed[t] # <<>> /\ log[t] # <<>> /\ log[t][1].merged) =>
            /\ log[t][1].ev.season = FirstNonDefaultSeason(flushed[t])
            /\ log[t][1].ev.season = tkey[t][2]

\* an event without a season and an event of season 1 were merged under the
\* key of season 1, and the merged event has the season "1"
C27_Witness ==
    \E t \in Runs :
        /\ Len(flushed[t]) = 2 /\ log[t] # <<>> /\ log[t][1].merged
        /\ \E i \in 1 .. 2 : flushed[t][i].season = NoStr
        /\ \E i \in 1 .. 2 : flushed[t][i].season = <<"1">>
        /\ log[t][1].ev.season = <<"1">> /\ tkey[t][2] = <<"1">>

\* C28: for a feed-origin raw record the classification is Episode whenever
\* season and episode are both present, 0 included, Series whenever the
\* season is present and the episode is absent, and null otherwise; it is
\* Episode in exactly the cases in which the episode label is non-null
\* (stated as claimed; the code tests season and episode for truth, so a
\* season or an episode of 0 counts as absent for the classification while
\* the label counts it as present)
C28_FeedClassification ==
    (arg.fn = "pick" /\ out.done /\ ~out.raised /\ arg.source = "ANIRSS") =>
        /\ out.event.media_type =
              (IF arg.raw.season # NONE /\ arg.raw.episode # NONE
               THEN "Episode"
               ELSE IF arg.raw.season # NONE THEN "Series" ELSE NULL)
        /\ out.event.media_type = "Episode" <=> out.event.episode # NoStr

\* the URL of a call is synthesized: the raw record has no usable URL
\* field, the scan of the external URLs found nothing, and a reference id
\* is known
Synthesized ==
    /\ arg.fn = "tmdb_url" /\ out.done
    /\ RawTmdbUrl(arg.raw) = <<>>
    /\ ExternalTmdbUrl(arg.source, arg.raw) = <<>>
    /\ Truthy(PickTmdbId(arg.source, arg.raw, arg.anime))

\* C29: when the reference-site URL is synthesized from a known reference
\* id its path segment is movie only when the classification is "movie" in
\* any case of the letters, and tv for every other classification, a null
\* or unknown one included
\* (stated as claimed; the code gives movie for a null or empty
\* classification too)
C29_MovieOnlyForMovie ==
    Synthesized =>
        LET media_type == PickMediaType(arg.source, arg.raw)
        IN  /\ Len(out.url) = 5
            /\ out.url[1] = "https://www.themoviedb.org"
            /\ out.url[5] = PickTmdbId(arg.source, arg.raw, arg.anime)
            /\ out.url[3] =
                  (IF media_type \in {"movie", "Movie", "MOVIE"}
                   THEN "movie" ELSE "tv")

\* C30: the cache key is the reference id when it is present and not the
\* text of None, else emby_ followed by the series id, and the cache path is
\* the file of that name in the cache directory; when neither id is
\* available there is no cache path, no select() call finds, replaces or
\* writes a file of the cache directory, and every call returns the default
\* image when it exists and null otherwise, also when a candidate was
\* downloaded
C30_CacheKeyAndNoKey ==
    arg.fn = "select" =>
        LET tmdb_id == arg.tmdb_id
            series_id == arg.emby_series_id
            key == IF tmdb_id \notin {NULL, "", "None"} THEN <<tmdb_id>>
                   ELSE IF series_id \notin {NULL, ""}
                   THEN <<"emby_", series_id>>
                   ELSE <<>>
            path == GetCachePath(tmdb_id, series_id, arg.cache_dir)
        IN  /\ CacheKey(tmdb_id, series_id) = key
            /\ (key # <<>> /\ arg.cache_dir) =>
                  path = <<"cache_dir", "/">> \o key \o <<".png">>
            /\ env.path <=> path # <<>>
            /\ key = <<>> =>
                  /\ path = <<>>
                  /\ cache \in {NoFile} \cup Files
                  /\ tmp = NoFile
                  /\ \A i \in Selectors :
                        /\ output_img[i] = NULL
                        /\ ipc[i] = "done" =>
                              result[i] = (IF env.default THEN DefaultPath
                                           ELSE NULL)

\* a selector built with the text of None and no series id downloaded a
\* candidate and returned the default image, the file of the cache
\* directory being as it was
C30_Witness ==
    /\ arg.fn = "select" /\ arg.tmdb_id = "None"
    /\ arg.emby_series_id = NULL /\ arg.cache_dir
    /\ cache \in Files /\ env.default
    /\ \E i \in Selectors :
          /\ ipc[i] = "done" /\ result[i] = DefaultPath
          /\ \E u \in DOMAIN fetch[i] : fetch[i][u] = "ok"

\* the fetches of call i that returned and were not too late to be adopted
Returned(i) == {u \in DOMAIN fetch[i] : fetch[i][u] \in {"ok", "empty"}}

C31_State ==
    \A i \in Selectors :
        /\ Returned(i) = (IF winner[i] = 0 THEN {} ELSE {winner[i]})
        /\ (\E u \in DOMAIN fetch[i] : fetch[i][u] = "late") => winner[i] # 0
        /\ ipc[i] = "done" =>
              \A u \in DOMAIN fetch[i] : fetch[i][u] # "flying"
        /\ (\E u \in DOMAIN fetch[i] : fetch[i][u] = "cancelled") =>
              ipc[i] = "done" /\ winner[i] # 0

C31_Step ==
    \A i \in Selectors :
        /\ winner[i] # 0 => winner'[i] = winner[i]
        /\ (winner[i] = 0 /\ winner'[i] # 0) =>
              /\ fetch[i][winner'[i]] = "flying"
              /\ \A u \in DOMAIN fetch[i] :
                    u # winner'[i] => fetch[i][u] \in {"flying", "fail"}
        /\ ipc[i] = "done" => fetch'[i] = fetch[i]
        /\ (ipc[i] = "download" /\ Returns(i)) =>
              /\ cache' # cache =>
                    /\ winner[i] # 0 /\ fetch[i][winner[i]] = "ok"
                    /\ cache'.content = Bytes(winner[i])
              /\ (\A u \in DOMAIN fetch[i] : fetch[i][u] = "fail") =>
                    /\ cache' = cache /\ tmp' = tmp
                    /\ output_img'[i] = output_img[i]
                    /\ result'[i] \in {NULL, DefaultPath, output_img[i]}

\* C31: in the download race the bytes select() adopts are those of the
\* first fetch that returns, the fetches that raised before it being
\* skipped; when select() adopts them every fetch still in flight is
\* cancelled and no fetch of the race completes afterwards; when every
\* fetch raises no image is obtained and no cache file is written
C31_FirstReturnedAdopted == [](C31_State) /\ [][C31_Step]_vars

\* the fetch of the first candidate raised, the fetch of the second
\* returned bytes, and these were saved and returned
C31_Witness ==
    \E i \in Selectors :
        /\ ipc[i] = "done" /\ Len(fetch[i]) >= 2
        /\ fetch[i][1] = "fail" /\ fetch[i][2] = "ok" /\ winner[i] = 2
        /\ cache # NoFile /\ cache.content = Bytes(2)
        /\ result[i] = CachePath

\* the complete contents a cache file may have
Complete == {<<"old", 0>>} \cup {Bytes(u) : u \in Urls}

\* call i resumes with bytes to save and a cache path, and the save ends in
\* the way how, the removal of the temp file succeeding or not
Saves(i, how, unlinked) ==
    /\ Resume(i, how, unlinked)
    /\ winner[i] # 0 /\ fetch[i][winner[i]] = "ok" /\ env.path

\* a save that ends well leaves the new bytes at the destination and no
\* temp file; any other save leaves the destination as it was and reports
\* no path
C32_SaveStep(i, how, unlinked) ==
    IF how = "saved"
    THEN /\ cache' = [content |-> Bytes(winner[i]), age |-> 0,
                      staterr |-> FALSE]
         /\ tmp' = NoFile
         /\ output_img'[i] = CachePath /\ result'[i] = CachePath
    ELSE /\ cache' = cache
         /\ output_img'[i] = output_img[i]
         /\ result'[i] # CachePath \/ output_img[i] = CachePath

\* C32 as claimed: the destination holds at every moment its previous
\* complete content or the new complete content, also with two calls of one
\* cache key; when the write or the rename fails the temp file is removed,
\* the destination is unchanged and the save reports no path
C32_TempAlwaysRemoved ==
    /\ [](cache # NoFile => cache.content \in Complete)
    /\ [][\A i \in Selectors, how \in SaveOutcomes, unlinked \in BOOLEAN :
            Saves(i, how, unlinked) =>
                /\ C32_SaveStep(i, how, unlinked)
                /\ how \in {"write_fail", "move_fail"} => tmp' = NoFile]_vars

\* C32, amended: the same, but when the write or the rename fails the temp
\* file is removed only if its removal succeeds; when the removal fails too
\* the error is swallowed and the temp file stays, partial after a failed
\* write and complete after a failed rename; when the directory cannot be
\* made no temp file is written
C32_TempRemovedIfUnlinked ==
    /\ [](cache # NoFile => cache.content \in Complete)
    /\ [][\A i \in Selectors, how \in SaveOutcomes, unlinked \in BOOLEAN :
            Saves(i, how, unlinked) =>
                /\ C32_SaveStep(i, how, unlinked)
                /\ (how \in {"write_fail", "move_fail"} /\ unlinked) =>
                      tmp' = NoFile
                /\ (how = "write_fail" /\ ~unlinked) =>
                      tmp' = <<"partial", 0>>
                /\ (how = "move_fail" /\ ~unlinked) =>
                      tmp' = Bytes(winner[i])
                /\ how = "mkdir_fail" => tmp' = tmp]_vars

\* both calls fetched bytes; one save replaced the old file by the new
\* bytes, the other failed and left its temp file behind
C32_Witness ==
    /\ \A i \in Selectors :
          ipc[i] = "done" /\ winner[i] # 0 /\ fetch[i][winner[i]] = "ok"
    /\ cache # NoFile /\ cache.content = Bytes(1)
    /\ tmp # NoFile
    /\ \E i \in Selectors : is_image_expired[i]

\* select() call i starts in this step and finds a cache file
FindsFile(i) ==
    ipc[i] = "idle" /\ ipc'[i] # "idle" /\ env.path /\ cache # NoFile

C33_Step ==
    \A i \in Selectors : FindsFile(i) =>
        /\ output_img'[i] = CachePath
        /\ is_image_expired'[i] <=> (cache.staterr \/ cache.age > 14 * 24)
        /\ (~cache.staterr /\ cache.age <= 14 * 24) =>
              /\ ipc'[i] = "done" /\ result'[i] = CachePath
              /\ fetch'[i] = <<>>
        /\ (cache.staterr \/ cache.age > 14 * 24) =>
              /\ cache' = cache
              /\ IF env.urls > 0
                 THEN /\ ipc'[i] = "download"
                      /\ fetch'[i] = [u \in 1 .. env.urls |-> "flying"]
                 ELSE ipc'[i] = "done" /\ result'[i] = CachePath

C33_State ==
    \A i \in Selectors :
        (ipc[i] = "done" /\ is_image_expired[i]) => result[i] = CachePath

\* C33: a cache file is fresh exactly when its modification age is at most
\* 14 x 24 hours, and an error while reading the modification time makes it
\* count as expired; an expired file starts a refresh attempt when there
\* are candidates, and stays the result of the call when the refresh gives
\* nothing
C33_FreshUpToFourteenDays == [](C33_State) /\ [][C33_Step]_vars

\* a file aged exactly 14 days was returned as fresh, without a fetch,
\* although there are candidates
C33_Witness ==
    \E i \in Selectors :
        /\ ipc[i] = "done" /\ result[i] = CachePath /\ ~is_image_expired[i]
        /\ fetch[i] = <<>> /\ env.urls > 0
        /\ cache # NoFile /\ cache.age = 14 * 24 /\ ~cache.staterr

\* run r has aborted with a record that is still unsent
Blocked(r) == pc[r] = "aborted" /\ rec[r] # NoRec /\ sent[rec[r]] = 0

C34_State ==
    \A r \in Runs : Blocked(r) =>
        /\ SelectUnsend(rec[r][1]) = rec[r]
        /\ \A i \in 1 .. MaxId : i > rec[r][2] => sent[<<rec[r][1], i>>] = 1
        /\ \A r2 \in Runs :
              (rec[r2] # NoRec /\ rec[r2][1] = rec[r][1]) =>
                  rec[r2][2] >= rec[r][2]
        /\ \A r2 \in Runs : \A i \in 1 .. Len(log[r2]) :
              (~log[r2][i].merged /\ log[r2][i].ev.id[1] = rec[r][1]) =>
                  log[r2][i].ev.id[2] >= rec[r][2]

C34_Step ==
    \A r \in Runs : Blocked(r) =>
        /\ \A r2 \in Runs :
              (pc[r2] = "init" /\ pc'[r2] # "init" /\ src'[r2] = rec[r][1]
                  /\ rec'[r2] # NoRec) => rec'[r2] = rec[r]
        /\ \A i \in 1 .. MaxId :
              i < rec[r][2] =>
                  sent'[<<rec[r][1], i>>] = sent[<<rec[r][1], i>>]
        /\ ~Blocked(r)' => sent'[rec[r]] = 1

\* C34: a record on which a run aborted before the commit stays the unsent
\* record of its source with the greatest id; every later run of the source
\* that fetches a record fetches this one, and while it is unsent no older
\* record of the source is committed or dispatched
C34_AbortedRecordBlocksOlder == [](C34_State) /\ [][C34_Step]_vars

\* both runs aborted on the newest record of the feed, one after the other,
\* and the older record of the feed is still unsent
C34_Witness ==
    /\ \A r \in {1, 2} : Blocked(r) /\ rec[r] = <<"ANIRSS", MaxId>>
    /\ sent[<<"ANIRSS", 1>>] = 0

\* the flush that holds the lock of key k
FlushOf(k) == {t \in Runs : tstate[t] = "flush" /\ tkey[t] = k}

C35_Step ==
    \A r \in Runs :
        /\ WaitsForFlush(r) =>
              \A t \in FlushOf(KeyOf(r)) :
                  /\ tstate'[t] \in {"flush", "done"}
                  /\ flushed'[t] = flushed[t]
                  /\ tstate'[t] = "flush" => pc'[r] = "lockwait"
        /\ (pc[r] = "lockwait" /\ pc'[r] = "buffered") =>
              /\ FlushOf(tkey'[r]) = {}
              /\ r \in RunsIn(buffer'[tkey'[r]])
              /\ \A t \in Runs :
                    RunsIn(buffer'[tkey'[r]]) \cap RunsIn(flushed[t]) = {}
              /\ tasks'[tkey'[r]] = r
              /\ tstate'[r] = "sleep" /\ elapsed'[r] = 0

C35_State ==
    \A r \in Runs :
        /\ pc[r] = "lockwait" =>
              /\ \A t \in Runs : r \notin RunsIn(flushed[t])
              /\ \A k \in DOMAIN buffer : r \notin RunsIn(buffer[k])
        /\ pc[r] = "buffered" =>
              \/ /\ r \in RunsIn(Pending(tkey[r]))
                 /\ LiveTimer(tasks[tkey[r]], tkey[r])
              \/ \E t \in Runs : r \in RunsIn(flushed[t])

\* C35: an add_episode that arrives while a flush of its key holds the
\* bucket lock does not cancel that flush and is not part of its merged
\* event; it waits for the lock, and when it gets it the bucket of the
\* flush is gone: its event goes to a bucket that holds no flushed event,
\* with a new 60s timer, is never lost, and is flushed by a later flush
C35_AddDuringFlush ==
    /\ [](C35_State)
    /\ [][C35_Step]_vars
    /\ \A r \in Runs :
          WaitsForFlush(r) ~>
              (\E t \in Runs :
                  /\ r \in RunsIn(flushed[t]) /\ tstate[t] = "done"
                  /\ \E u \in Runs \ {t} : flushed[u] # <<>>)

\* a run waited while the first event of its key was being flushed, and its
\* own event was flushed alone by its own timer afterwards
C35_Witness ==
    \E r \in Runs : \E t \in Runs \ {r} :
        /\ tkey[r] = tkey[t] /\ tstate[t] = "done" /\ tstate[r] = "done"
        /\ RunsIn(flushed[t]) = {t} /\ RunsIn(flushed[r]) = {r}
        /\ \E i \in 1 .. Len(log[t]) : log[t][i].res = "sent"

\* the events that are pending, with the key of their bucket
PendingEvents ==
    UNION {{<<k, buffer[k][i]>> : i \in 1 .. Len(buffer[k])} :
              k \in DOMAIN buffer}

\* C36: the bucket key is the title and the extracted season, and there is
\* one buffer for all runs: pending events of equal title and season are in
\* the same bucket whatever their source, and a flush hands the whole
\* bucket to the callback once, as a single merged event
C36_OneBucketAcrossSources ==
    /\ \A p \in PendingEvents : p[1] = <<p[2].title, SeasonOf(p[2])>>
    /\ \A p \in PendingEvents, q \in PendingEvents :
          (p[2].title = q[2].title /\ SeasonOf(p[2]) = SeasonOf(q[2])) =>
              p[1] = q[1]
    /\ \A t \in Runs : flushed[t] # <<>> =>
          /\ Len(log[t]) = 1 /\ log[t][1].merged
          /\ log[t][1].ev = MergeEpisodes(flushed[t], flushed[t][1].title)
          /\ \A i \in 1 .. Len(flushed[t]) :
                tkey[t] = <<flushed[t][i].title, SeasonOf(flushed[t][i])>>

\* a library event and then a feed event of the same title and season were
\* flushed together as one merged event
C36_Witness ==
    \E t \in Runs :
        /\ Len(flushed[t]) = 2
        /\ flushed[t][1].source = "EMBY" /\ flushed[t][2].source = "ANIRSS"
        /\ flushed[t][1].title = flushed[t][2].title
        /\ Len(log[t]) = 1 /\ log[t][1].merged
        /\ log[t][1].ev.image = flushed[t][1].image

\* C37: the flush of a bucket calls the callback given with the last
\* arrival of its key, that is _do_push of the run of the last-arrived
\* event, which sends to the targets of that run; the runs of the earlier
\* arrivals dispatch nothing, their timers being cancelled; the image and
\* the fields the merge does not compute are those of the first-arrived
\* event
C37_CallbackOfLastArrival ==
    \A t \in Runs : flushed[t] # <<>> =>
        LET first == flushed[t][1]
            m == log[t][1].ev
        IN  /\ LastOf(flushed[t]).run = t
            /\ Len(log[t]) = 1 /\ log[t][1].merged
            /\ \A r \in RunsIn(flushed[t]) \ {t} :
                  log[r] = <<>> /\ tstate[r] = "cancelled"
            /\ m.image = first.image
            /\ m.id = first.id /\ m.source = first.source
            /\ m.media_type = first.media_type
            /\ m.episode = first.episode

\* two events with different images were merged: the run of the second
\* event delivered the merged event, which has the image of the first
C37_Witness ==
    \E t \in Runs :
        /\ Len(flushed[t]) = 2
        /\ flushed[t][2].run = t /\ flushed[t][1].run # t
        /\ flushed[t][1].image # flushed[t][2].image
        /\ log[t] # <<>> /\ log[t][1].res = "sent"
        /\ log[t][1].ev.image = flushed[t][1].image
        /\ log[flushed[t][1].run] = <<>>

\* C38: on a merged dispatch the rendering of the merged template goes to
\* the private targets only; each group target gets the base rendering of
\* the standard template followed by the mention segment of that group; the
\* private delivery comes before every group delivery, and when the first
\* rendering fails nothing is delivered to anyone
C38_MergedDispatch ==
    (arg.fn = "do_push" /\ arg.is_merged) =>
        /\ \A n \in 1 .. Len(out.calls) :
              LET c == out.calls[n]
              IN  IF c.kind = "private"
                  THEN /\ n = 1
                       /\ c.to = arg.private_push_target
                       /\ c.message =
                             <<[template |-> "merged_template", at |-> <<>>]>>
                  ELSE /\ Len(c.to) = 1
                       /\ \E i \in 1 .. Len(arg.group_push_target) :
                             c.to[1] = arg.group_push_target[i]
                       /\ c.message =
                             <<[template |-> "template_base", at |-> <<>>],
                               [template |-> "template_at",
                                at |-> SubscribersOf(c.to[1])]>>
        /\ arg.render = "raise" => out.calls = <<>>
        /\ (/\ out.done /\ arg.render = "ok" /\ arg.base = "ok"
            /\ ~arg.private_raises /\ arg.group_raises = 0) =>
              Len(out.calls) = (IF arg.private_push_target = <<>> THEN 0 ELSE 1)
                                   + Len(arg.group_push_target)

\* a merged dispatch to two private targets and two groups is complete: the
\* merged rendering went out first, then one message per group
C38_Witness ==
    /\ arg.fn = "do_push" /\ arg.is_merged /\ out.done
    /\ Len(out.calls) = 3
    /\ out.calls[1].kind = "private"
    /\ out.calls[2].to = <<"g1">> /\ out.calls[3].to = <<"g2">>
    /\ out.calls[2].message[2].at = <<"u7">>

====
